---------------------------- MODULE Spec2Model ----------------------------
(***************************************************************************)
(* The ISS docking simulator (src/backend/nasa/iss_docking_sim.py) as a    *)
(* state machine: the simulator object's fields, the physics-loop tasks    *)
(* that start_docking_simulation creates on the event loop, and the three  *)
(* operations a caller has (start_docking_simulation, abort_docking,       *)
(* get_simulation_status).                                                 *)
(*                                                                         *)
(* The code computes in binary floating point.  Here every real quantity   *)
(* is a fixed-point number: an integer count of units of 10^-16, of        *)
(* unbounded width, held as a sign and a little-endian sequence of base    *)
(* 10^4 digits (TLC's own integers are 32 bits wide).  Products and        *)
(* quotients are truncated toward zero at 10^-16, where the code rounds    *)
(* to nearest at 53 bits.                                                  *)
(***************************************************************************)
EXTENDS Integers, Sequences, FiniteSets, TLC

(***************************************************************************)
(* Unbounded naturals: little-endian digit sequences, no leading zero      *)
(* digit, <<>> is 0.                                                       *)
(***************************************************************************)
RADIX == 10^4

RECURSIVE NNorm(_)
NNorm(a) ==
    IF a = <<>> THEN <<>>
    ELSE IF a[Len(a)] = 0 THEN NNorm(SubSeq(a, 1, Len(a) - 1))
    ELSE a

RECURSIVE NAddC(_, _, _)
NAddC(a, b, c) ==
    IF a = <<>> /\ b = <<>> THEN (IF c = 0 THEN <<>> ELSE <<c>>)
    ELSE LET da == IF a = <<>> THEN 0 ELSE Head(a)
             db == IF b = <<>> THEN 0 ELSE Head(b)
             ta == IF a = <<>> THEN <<>> ELSE Tail(a)
             tb == IF b = <<>> THEN <<>> ELSE Tail(b)
             s  == da + db + c
         IN  <<s % RADIX>> \o NAddC(ta, tb, s \div RADIX)

NAdd(a, b) == NAddC(a, b, 0)

\* a - b - c for a >= b + c, before normalisation
RECURSIVE NSubB(_, _, _)
NSubB(a, b, c) ==
    IF a = <<>> THEN <<>>
    ELSE LET db == IF b = <<>> THEN 0 ELSE Head(b)
             tb == IF b = <<>> THEN <<>> ELSE Tail(b)
             s  == Head(a) - db - c
         IN  IF s < 0 THEN <<s + RADIX>> \o NSubB(Tail(a), tb, 1)
             ELSE <<s>> \o NSubB(Tail(a), tb, 0)

NSub(a, b) == NNorm(NSubB(a, b, 0))

\* -1, 0, 1 as a < b, a = b, a > b
RECURSIVE NCmpTop(_, _, _)
NCmpTop(a, b, i) ==
    IF i = 0 THEN 0
    ELSE IF a[i] < b[i] THEN -1
    ELSE IF a[i] > b[i] THEN 1
    ELSE NCmpTop(a, b, i - 1)

NCmp(a, b) ==
    IF Len(a) < Len(b) THEN -1
    ELSE IF Len(a) > Len(b) THEN 1
    ELSE NCmpTop(a, b, Len(a))

NLess(a, b) == NCmp(a, b) < 0

\* a * d + c for a digit d
RECURSIVE NMulD(_, _, _)
NMulD(a, d, c) ==
    IF a = <<>> THEN (IF c = 0 THEN <<>> ELSE <<c>>)
    ELSE LET s == Head(a) * d + c
         IN  <<s % RADIX>> \o NMulD(Tail(a), d, s \div RADIX)

NShift(a, k) == IF a = <<>> THEN <<>> ELSE [i \in 1..k |-> 0] \o a

\* a * d + hi * RADIX for a digit d
NMulAdd(a, d, hi) ==
    IF hi = <<>> THEN NNorm(NMulD(a, d, 0))
    ELSE NAdd(NNorm(NMulD(a, d, 0)), <<0>> \o hi)

RECURSIVE NMul(_, _)
NMul(a, b) ==
    IF a = <<>> \/ b = <<>> THEN <<>>
    ELSE NMulAdd(a, Head(b), NMul(a, Tail(b)))

\* <<a \div d, a % d>> for a small d (d * RADIX within TLC's integers)
RECURSIVE NDivSmallR(_, _)
NDivSmallR(a, d) ==
    IF a = <<>> THEN <<(<<>>), 0>>
    ELSE LET h   == NDivSmallR(Tail(a), d)
             cur == h[2] * RADIX + Head(a)
         IN  <<(<<cur \div d>> \o h[1]), cur % d>>

NDivSmall(a, d) == NNorm(NDivSmallR(a, d)[1])

NDrop(a, k) == IF Len(a) <= k THEN <<>> ELSE SubSeq(a, k + 1, Len(a))

Min(i, j) == IF i < j THEN i ELSE j

\* cur \div RADIX^(Len(b) - 1) when that has at most two digits, else -1
NTop(cur, b) ==
    LET k == Len(cur) - Len(b) + 1
    IN  IF k <= 0 THEN 0
        ELSE IF k = 1 THEN cur[Len(cur)]
        ELSE IF k = 2 THEN cur[Len(cur)] * RADIX + cur[Len(cur) - 1]
        ELSE -1

\* bounds on the digit cur \div b from the leading digits of cur and b (b > 0)
QLo(cur, b, slack) ==
    IF NTop(cur, b) < 0 THEN 0
    ELSE Min(RADIX - 1, NTop(cur, b) \div (b[Len(b)] + slack))

QHi(cur, b) ==
    IF NTop(cur, b) < 0 THEN RADIX - 1
    ELSE Min(RADIX - 1, (NTop(cur, b) + 1) \div b[Len(b)])

\* the largest digit t in lo..hi with t * b <= cur (lo * b <= cur)
RECURSIVE QDigit(_, _, _, _)
QDigit(cur, b, lo, hi) ==
    IF lo = hi THEN lo
    ELSE LET mid == (lo + hi + 1) \div 2
         IN  IF NLess(cur, NNorm(NMulD(b, mid, 0)))
             THEN QDigit(cur, b, lo, mid - 1)
             ELSE QDigit(cur, b, mid, hi)

\* the quotient digit q put before the digits q_hi found so far, and what is
\* left of cur
NDivPut(cur, q_hi, b, q) ==
    <<NNorm(<<q>> \o q_hi), NSub(cur, NNorm(NMulD(b, q, 0)))>>

\* one step of the long division: h is <<quotient, remainder>> of the higher
\* digits, d the next digit of the dividend
NDivDigit(d, h, b) ==
    IF h[2] = <<>> /\ d = 0 THEN <<NNorm(<<0>> \o h[1]), (<<>>)>>
    ELSE NDivPut(NNorm(<<d>> \o h[2]), h[1], b,
                 QDigit(NNorm(<<d>> \o h[2]), b,
                        QLo(NNorm(<<d>> \o h[2]), b, 1),
                        QHi(NNorm(<<d>> \o h[2]), b)))

\* <<a \div b, a % b>> for b > 0, one quotient digit at a time
RECURSIVE NDivMod(_, _)
NDivMod(a, b) ==
    IF NLess(a, b) THEN <<(<<>>), a>>
    ELSE NDivDigit(Head(a), NDivMod(Tail(a), b), b)

\* the largest digit t in lo..hi with (s2 * RADIX + t) * t <= cur
RECURSIVE SDigit(_, _, _, _)
SDigit(cur, s2, lo, hi) ==
    IF lo = hi THEN lo
    ELSE LET mid == (lo + hi + 1) \div 2
         IN  IF NLess(cur, NNorm(NMulD(NNorm(<<mid>> \o s2), mid, 0)))
             THEN SDigit(cur, s2, lo, mid - 1)
             ELSE SDigit(cur, s2, mid, hi)

\* the root digit t put before the digits s found so far (s2 = 2 s), and what
\* is left of cur
NSqrtPut(cur, s, s2, t) ==
    <<NNorm(<<t>> \o s), NSub(cur, NNorm(NMulD(NNorm(<<t>> \o s2), t, 0)))>>

NSqrtPick(cur, s, s2) ==
    NSqrtPut(cur, s, s2,
             IF s2 = <<>> THEN SDigit(cur, s2, 0, RADIX - 1)
             ELSE SDigit(cur, s2, QLo(cur, <<0>> \o s2, 2),
                         QHi(cur, <<0>> \o s2)))

\* one step of the root: h is <<root, remainder>> of the higher digits, lo2
\* the next two digits
NSqrtDigit(lo2, h) ==
    IF h[1] = <<>> THEN NSqrtPick(NNorm(lo2 \o h[2]), h[1], <<>>)
    ELSE NSqrtPick(NNorm(lo2 \o h[2]), h[1], NAdd(h[1], h[1]))

\* <<s, a - s * s>> for s the floor of the square root of a, one root digit
\* (two digits of a) at a time
RECURSIVE NSqrtR(_)
NSqrtR(a) ==
    IF a = <<>> THEN <<(<<>>), (<<>>)>>
    ELSE NSqrtDigit(IF Len(a) = 1 THEN <<a[1]>> ELSE <<a[1], a[2]>>,
                    NSqrtR(NDrop(a, 2)))

NSqrt(a) == NSqrtR(a)[1]

(***************************************************************************)
(* Signed fixed-point numbers, ONE units to 1.0.                           *)
(***************************************************************************)
ONE  == [neg |-> FALSE, mag |-> <<0, 0, 0, 0, 1>>]
FRAC == Len(ONE.mag) - 1        \* base-10^4 digits after the point

Mk(neg, mag) == [neg |-> neg /\ mag # <<>>, mag |-> mag]
Zero == Mk(FALSE, <<>>)

RECURSIVE NFromInt(_)
NFromInt(n) == IF n = 0 THEN <<>> ELSE <<n % RADIX>> \o NFromInt(n \div RADIX)

RECURSIVE NPow10(_, _)
NPow10(a, k) ==
    IF k = 0 THEN a
    ELSE IF k >= 4 THEN NPow10(NShift(a, 1), k - 4)
    ELSE NPow10(NMulD(a, 10, 0), k - 1)

\* the decimal m * 10^-e, 0 <= e <= 16
Dec(m, e) == Mk(m < 0, NPow10(NFromInt(IF m < 0 THEN -m ELSE m), 4 * FRAC - e))

Neg(x) == Mk(~x.neg, x.mag)
Abs(x) == Mk(FALSE, x.mag)

Add(x, y) ==
    IF x.neg = y.neg THEN Mk(x.neg, NAdd(x.mag, y.mag))
    ELSE IF NLess(x.mag, y.mag) THEN Mk(y.neg, NSub(y.mag, x.mag))
    ELSE Mk(x.neg, NSub(x.mag, y.mag))

Sub(x, y) == Add(x, Neg(y))

Less(x, y) ==
    IF x.neg /= y.neg THEN x.neg
    ELSE IF x.neg THEN NLess(y.mag, x.mag)
    ELSE NLess(x.mag, y.mag)

Mul(x, y) == Mk(x.neg /= y.neg, NDrop(NMul(x.mag, y.mag), FRAC))

\* x / y for y /= 0
Div(x, y) == Mk(x.neg /= y.neg, NDivMod(NShift(x.mag, FRAC), y.mag)[1])

\* x / d for a small positive integer d
DivInt(x, d) == Mk(x.neg, NDivSmall(x.mag, d))

Sqrt(x) == Mk(FALSE, NSqrt(NShift(x.mag, FRAC)))


(***************************************************************************)
(* Elementary functions on the fixed-point reals                           *)
(***************************************************************************)
Pi     == Add(Dec(31415926, 7), Dec(535897932, 16))
TwoPi  == Add(Pi, Pi)
HalfPi == DivInt(Pi, 2)

IsNeg(x) == x.neg

\* the largest integer not above x
Floor(x) ==
    LET whole == Mk(x.neg, NShift(NDrop(x.mag, FRAC), FRAC))
    IN  IF x.neg /\ whole # x THEN Sub(whole, ONE) ELSE whole

\* x modulo m for m > 0, in [0, m)
Mod(x, m) == Sub(x, Mul(m, Floor(Div(x, m))))

\* sum of the series that starts with term and whose every next term is
\* -term * x2 / ((k+1)(k+2)), k rising by 2
RECURSIVE AlternatingSeries(_, _, _)
AlternatingSeries(term, x2, k) ==
    IF term = Zero \/ k > 30 THEN Zero
    ELSE Add(term,
             AlternatingSeries(Neg(DivInt(Mul(term, x2), (k + 1) * (k + 2))),
                               x2, k + 2))

\* cosine on [0, pi/2]
CosSeries(x) == AlternatingSeries(ONE, Mul(x, x), 0)

\* sine on [0, pi/2]
SinSeries(x) == AlternatingSeries(x, Mul(x, x), 1)

\* cosine on [0, pi]
CosHalfTurn(y) ==
    IF Less(HalfPi, y) THEN Neg(CosSeries(Sub(Pi, y))) ELSE CosSeries(y)

\* cosine on [0, 2 pi)
CosFullTurn(y) ==
    IF Less(Pi, y) THEN CosHalfTurn(Sub(TwoPi, y)) ELSE CosHalfTurn(y)

Cos(x) == CosFullTurn(Mod(x, TwoPi))

Sin(x) == Cos(Sub(x, HalfPi))

NewtonStep(y, x, sin_y, cos_y) == Sub(y, Div(Sub(sin_y, x), cos_y))

\* Newton's iteration for sin y = x, stopping early at a fixed point
RECURSIVE ArcSinNewton(_, _, _)
ArcSinRefine(y, next, x, rounds) ==
    IF next = y THEN y ELSE ArcSinNewton(next, x, rounds - 1)

ArcSinNewton(y, x, rounds) ==
    IF rounds = 0 THEN y
    ELSE ArcSinRefine(y, NewtonStep(y, x, SinSeries(y), CosSeries(y)), x,
                      rounds)

\* arcsine for 0 <= x <= 0.71
ArcSinSmall(x) == IF x = Zero THEN Zero ELSE ArcSinNewton(x, x, 6)

\* arcsine for 0 <= x <= 1
ArcSinPositive(x) ==
    IF Less(Dec(71, 2), x)
    THEN Sub(HalfPi, ArcSinSmall(Sqrt(Sub(ONE, Mul(x, x)))))
    ELSE ArcSinSmall(x)

\* arcsine for -1 <= x <= 1
ArcSin(x) == IF x.neg THEN Neg(ArcSinPositive(Abs(x))) ELSE ArcSinPositive(x)

\* arccosine for -1 <= x <= 1
ArcCos(x) == Sub(HalfPi, ArcSin(x))

Radians(deg) == Div(Mul(deg, Pi), Dec(180, 0))
Degrees(rad) == Div(Mul(rad, Dec(180, 0)), Pi)

(***************************************************************************)
(* Vector3D.  The code writes its vector arithmetic out component by       *)
(* component; VAdd, VSub, VNeg, VScale and VDivInt are those expressions.   *)
(***************************************************************************)
Vector3D(x, y, z) == [x |-> x, y |-> y, z |-> z]

ZeroVector == Vector3D(Zero, Zero, Zero)

VAdd(u, v) == Vector3D(Add(u.x, v.x), Add(u.y, v.y), Add(u.z, v.z))
VSub(u, v) == Vector3D(Sub(u.x, v.x), Sub(u.y, v.y), Sub(u.z, v.z))
VNeg(v) == Vector3D(Neg(v.x), Neg(v.y), Neg(v.z))
VScale(v, k) == Vector3D(Mul(v.x, k), Mul(v.y, k), Mul(v.z, k))
VDivInt(v, d) == Vector3D(DivInt(v.x, d), DivInt(v.y, d), DivInt(v.z, d))

SumOfSquares(x, y, z) == Add(Add(Mul(x, x), Mul(y, y)), Mul(z, z))

Magnitude(v) == Sqrt(SumOfSquares(v.x, v.y, v.z))

NormalizeBy(v, mag) ==
    IF mag = Zero THEN ZeroVector
    ELSE Vector3D(Div(v.x, mag), Div(v.y, mag), Div(v.z, mag))

Normalize(v) == NormalizeBy(v, Magnitude(v))

(***************************************************************************)
(* Enumerations, parameters and port table                                 *)
(***************************************************************************)
DockingPhase ==
    {"APPROACH", "PROXIMITY", "FINAL_APPROACH", "CONTACT", "CAPTURE",
     "RETRACTION", "HARD_DOCK", "ABORT"}

DockingPort ==
    {"HARMONY_FORWARD", "HARMONY_NADIR", "HARMONY_ZENITH", "UNITY_NADIR"}

\* DockingParameters
approach_velocity        == Dec(1, 1)
max_lateral_offset       == Dec(5, 2)
max_angular_misalignment == Dec(2, 0)

physics_dt      == Dec(1, 1)
spacecraft_mass == 7000

\* self.docking_ports: only two of the four ports are configured
docking_ports ==
    [HARMONY_FORWARD |-> [position |-> Vector3D(Zero, Zero, Zero)],
     HARMONY_NADIR   |-> [position |-> Vector3D(Zero, Dec(-45, 1), Zero)]]

PortConfigured(port) == port \in DOMAIN docking_ports

(***************************************************************************)
(* One physics tick: dynamics                                              *)
(***************************************************************************)
CalculateOrbitalEffects(st) ==
    LET n  == Dec(1027, 6)
        ax == Mul(Mul(Dec(3, 0), Mul(n, n)), st.position.x)
        ay == Zero
        az == Mul(Neg(Mul(n, n)), st.position.z)
    IN  Vector3D(ax, ay, az)

\* the drag on a spacecraft of velocity `velocity` and speed v_rel
DragAt(velocity, v_rel) ==
    LET drag_coefficient == Dec(1, 8)
    IN  IF Less(Zero, v_rel)
        THEN VScale(Normalize(velocity),
                    Neg(Mul(drag_coefficient, Mul(v_rel, v_rel))))
        ELSE ZeroVector

CalculateDragEffects(st) == DragAt(st.velocity, Magnitude(st.velocity))

\* a thruster without limit
LimitThrustNever(control_acceleration, accel_magnitude) == control_acceleration

\* the clamp on an acceleration of magnitude accel_magnitude
LimitThrust(control_acceleration, accel_magnitude) ==
    LET max_acceleration == Dec(1, 1)
    IN  IF Less(max_acceleration, accel_magnitude)
        THEN VScale(control_acceleration,
                    Div(max_acceleration, accel_magnitude))
        ELSE control_acceleration

ClampAcceleration(control_acceleration) ==
    LimitThrust(control_acceleration, Magnitude(control_acceleration))

\* Defined for a configured port only: the table lookup raises KeyError
\* for the others.
CalculateControlInputs(st, port) ==
    LET target_position == docking_ports[port].position
        position_error  == VSub(target_position, st.position)
        velocity_error  == VNeg(st.velocity)
        kp == Dec(1, 2)
        kd == Dec(1, 1)
        control_force ==
            VAdd(VScale(position_error, kp), VScale(velocity_error, kd))
    IN  ClampAcceleration(VDivInt(control_force, spacecraft_mass))

\* the state after the velocity became `velocity`
Advance(st, velocity, dt) ==
    [position |-> VAdd(st.position, VScale(velocity, dt)),
     velocity |-> velocity,
     attitude |-> VAdd(st.attitude, VScale(st.angular_velocity, dt)),
     angular_velocity |-> st.angular_velocity]

UpdateSpacecraftDynamics(st, port) ==
    LET dt == physics_dt
        total_acceleration ==
            VAdd(VAdd(CalculateOrbitalEffects(st), CalculateDragEffects(st)),
                 CalculateControlInputs(st, port))
    IN  Advance(st, VAdd(st.velocity, VScale(total_acceleration, dt)), dt)

(***************************************************************************)
(* One physics tick: phase logic                                           *)
(***************************************************************************)
CalculateDistanceToPort(st, port) ==
    LET target_position == docking_ports[port].position
    IN  Magnitude(VSub(st.position, target_position))

\* a variant with the lateral comparison turned around
CheckCaptureConditionsOffAxis(st) ==
    LET lateral_offset ==
            Sqrt(Add(Mul(st.position.y, st.position.y),
                     Mul(st.position.z, st.position.z)))
        attitude_error ==
            Sqrt(SumOfSquares(st.attitude.x, st.attitude.y, st.attitude.z))
        approach_vel == Abs(st.velocity.x)
    IN  /\ Less(max_lateral_offset, lateral_offset)
        /\ Less(attitude_error, max_angular_misalignment)
        /\ Less(approach_vel, approach_velocity)

CheckCaptureConditions(st) ==
    LET lateral_offset ==
            Sqrt(Add(Mul(st.position.y, st.position.y),
                     Mul(st.position.z, st.position.z)))
        attitude_error ==
            Sqrt(SumOfSquares(st.attitude.x, st.attitude.y, st.attitude.z))
        approach_vel == Abs(st.velocity.x)
    IN  /\ Less(lateral_offset, max_lateral_offset)
        /\ Less(attitude_error, max_angular_misalignment)
        /\ Less(approach_vel, approach_velocity)

SimulateRetractionFails == FALSE

SimulateRetraction == TRUE

SimulateHardDock == TRUE

\* The branches of _update_docking_phase, one per phase the tick starts in.
FromApproach(ph, distance_to_port) ==
    IF Less(distance_to_port, Dec(50, 0)) THEN "PROXIMITY" ELSE ph

\* a variant that gives the proximity zone up again outside 50 m
FromProximityFallingBack(ph, distance_to_port) ==
    IF Less(distance_to_port, Dec(10, 0)) THEN "FINAL_APPROACH"
    ELSE IF Less(distance_to_port, Dec(50, 0)) THEN ph
    ELSE "APPROACH"

FromProximity(ph, distance_to_port) ==
    IF Less(distance_to_port, Dec(10, 0)) THEN "FINAL_APPROACH" ELSE ph

\* a variant without the speed test in the contact zone
FromFinalApproachAnySpeed(ph, distance_to_port, velocity_magnitude) ==
    IF Less(distance_to_port, Dec(1, 0)) THEN "CONTACT" ELSE ph

FromFinalApproach(ph, distance_to_port, velocity_magnitude) ==
    IF Less(distance_to_port, Dec(1, 0))
    THEN (IF Less(velocity_magnitude, approach_velocity)
          THEN "CONTACT" ELSE "ABORT")
    ELSE ph

FromContact(ph, st, distance_to_port) ==
    IF CheckCaptureConditions(st) THEN "CAPTURE"
    ELSE IF Less(Dec(2, 0), distance_to_port) THEN "ABORT"
    ELSE ph

FromCapture(ph) == IF SimulateRetraction THEN "RETRACTION" ELSE ph

FromRetraction(ph) == IF SimulateHardDock THEN "HARD_DOCK" ELSE ph

\* The phase after _update_docking_phase, run on state st in phase ph.
UpdateDockingPhase(ph, st, port) ==
    LET distance_to_port   == CalculateDistanceToPort(st, port)
        velocity_magnitude == Magnitude(st.velocity)
    IN  IF ph = "APPROACH" THEN FromApproach(ph, distance_to_port)
        ELSE IF ph = "PROXIMITY" THEN FromProximity(ph, distance_to_port)
        ELSE IF ph = "FINAL_APPROACH"
        THEN FromFinalApproach(ph, distance_to_port, velocity_magnitude)
        ELSE IF ph = "CONTACT" THEN FromContact(ph, st, distance_to_port)
        ELSE IF ph = "CAPTURE" THEN FromCapture(ph)
        ELSE IF ph = "RETRACTION" THEN FromRetraction(ph)
        ELSE ph

(***************************************************************************)
(* Final report                                                            *)
(***************************************************************************)
None == [none |-> TRUE]

\* a variant that grants the propellant bonus without looking at the propellant
CalculatePerformanceScoreAlwaysFrugal(ph, data) ==
    IF ph = "HARD_DOCK"
    THEN LET total_time == Mul(Dec(Len(data), 0), physics_dt)
             time_bonus == IF Less(total_time, Dec(600, 0)) THEN 10 ELSE 0
         IN  Min(100, 80 + time_bonus + 10)
    ELSE 0

CalculatePerformanceScore(ph, data) ==
    IF ph = "HARD_DOCK"
    THEN LET total_time == Mul(Dec(Len(data), 0), physics_dt)
             fuel_used  == Mul(Dec(Len(data), 0), Dec(1, 1))
             time_bonus == IF Less(total_time, Dec(600, 0)) THEN 10 ELSE 0
             fuel_bonus == IF Less(fuel_used, Dec(5, 0)) THEN 10 ELSE 0
         IN  Min(100, 80 + time_bonus + fuel_bonus)
    ELSE 0

\* What _generate_final_report returns, or the exception it raises: it reads
\* self.spacecraft_state.position and self.docking_ports[self.target_port].
GenerateFinalReport(ph, st, port, data) ==
    IF st = None THEN [raised |-> "AttributeError"]
    ELSE IF ~PortConfigured(port) THEN [raised |-> "KeyError"]
    ELSE [success            |-> (ph = "HARD_DOCK"),
          final_phase        |-> ph,
          total_time         |-> Mul(Dec(Len(data), 0), physics_dt),
          final_distance     |-> CalculateDistanceToPort(st, port),
          fuel_consumed      |-> Mul(Dec(Len(data), 0), Dec(1, 1)),
          trajectory_points  |-> Len(data),
          performance_score  |-> CalculatePerformanceScore(ph, data)]

(***************************************************************************)
(* Bounds and inputs                                                       *)
(***************************************************************************)
MaxRuns  == 2       \* calls of start_docking_simulation in a behaviour
MaxTicks == 6       \* physics ticks within one run

\* initial_conditions dictionaries; a key left out takes the code's default
Get(d, k, default) == IF k \in DOMAIN d THEN d[k] ELSE default

AtPortAtRest   == [x |-> Zero, vx |-> Zero]
Overspeed      == [x |-> Dec(-107, 2), vx |-> Dec(2, 1)]
SlightOverspeed == [x |-> Dec(-5, 1), vx |-> Dec(1000003, 7)]
AtNadirAtRest  == [x |-> Zero, y |-> Dec(-45, 1), vx |-> Zero,
                   target_port |-> "HARMONY_NADIR"]
Receding       == [x |-> Dec(-49, 0), vx |-> Dec(-5, 0)]
AtZenith       == [x |-> Zero, vx |-> Zero, target_port |-> "HARMONY_ZENITH"]
UnknownPort    == [x |-> Dec(-3, 0), target_port |-> "HARMONY_AFT"]

Scenarios ==
    {AtPortAtRest, Overspeed, SlightOverspeed, AtNadirAtRest, Receding,
     AtZenith, UnknownPort}

(***************************************************************************)
(* State                                                                   *)
(***************************************************************************)
VARIABLES
    spacecraft_state,   \* None, or position, velocity, attitude, angular_velocity
    docking_phase,
    target_port,
    simulation_active,
    simulation_data,    \* the recorded data points, oldest first
    loops,              \* one entry per _physics_loop task: where it stands
    response,           \* what the last step's operation returned or raised
    run,                \* history: the run the last successful start began
    calc                \* the last call made to the orbital calculator

vars == <<spacecraft_state, docking_phase, target_port, simulation_active,
          simulation_data, loops, response, run, calc>>

\* ISSDockingSimulator.__init__
Init ==
    /\ spacecraft_state = None
    /\ docking_phase = "APPROACH"
    /\ target_port = "HARMONY_FORWARD"
    /\ simulation_active = FALSE
    /\ simulation_data = <<>>
    /\ loops = <<>>
    /\ response = [op |-> "__init__"]
    /\ run = [id |-> 0, ic |-> None, ticks |-> 0, aborted |-> FALSE,
              clobbered |-> FALSE]
    /\ calc = [call |-> "__init__"]

InitialState(ic) ==
    [position |-> Vector3D(Get(ic, "x", Dec(-200, 0)), Get(ic, "y", Zero),
                           Get(ic, "z", Zero)),
     velocity |-> Vector3D(Get(ic, "vx", Dec(1, 1)), Get(ic, "vy", Zero),
                           Get(ic, "vz", Zero)),
     attitude |-> Vector3D(Get(ic, "roll", Zero), Get(ic, "pitch", Zero),
                           Get(ic, "yaw", Zero)),
     angular_velocity |-> Vector3D(Zero, Zero, Zero)]

\* start_docking_simulation(initial_conditions).  The spacecraft state is
\* assigned first; DockingPort(name) then raises ValueError for a name that is
\* no member of the enumeration, and the handler answers with an error.
StartDockingSimulation(ic) ==
    /\ run.id < MaxRuns
    /\ UNCHANGED calc
    /\ spacecraft_state' = InitialState(ic)
    /\ IF Get(ic, "target_port", "HARMONY_FORWARD") \in DockingPort
       THEN /\ target_port' = Get(ic, "target_port", "HARMONY_FORWARD")
            /\ docking_phase' = "APPROACH"
            /\ simulation_active' = TRUE
            /\ simulation_data' = <<>>
            /\ loops' = Append(loops, "scheduled")
            /\ response' = [op |-> "start_docking_simulation",
                            status |-> "success",
                            phase |-> "APPROACH",
                            target_port |-> target_port']
            /\ run' = [id |-> run.id + 1, ic |-> ic, ticks |-> 0,
                       aborted |-> FALSE, clobbered |-> FALSE]
       ELSE /\ response' = [op |-> "start_docking_simulation",
                            status |-> "error"]
            /\ run' = [run EXCEPT !.id = @ + 1, !.clobbered = TRUE]
            /\ UNCHANGED <<target_port, docking_phase, simulation_active,
                           simulation_data, loops>>

\* _record_simulation_data
HISTORY_LIMIT == 1000

\* a variant that keeps the newest point only
RecordSimulationDataLatestOnly(data, ph, st) ==
    LET appended == Append(data, [phase |-> ph, position |-> st.position,
                                  velocity |-> st.velocity,
                                  attitude |-> st.attitude])
    IN  IF Len(appended) > 1 THEN Tail(appended) ELSE appended

RecordSimulationData(data, ph, st) ==
    LET appended == Append(data, [phase |-> ph, position |-> st.position,
                                  velocity |-> st.velocity,
                                  attitude |-> st.attitude])
    IN  IF Len(appended) > HISTORY_LIMIT THEN Tail(appended) ELSE appended

Terminal == {"HARD_DOCK", "ABORT"}

\* a variant of the loop's test that ignores the flag
LoopContinuesRegardless(active) == TRUE

\* The loop's own test, made each time the task gets to run.
LoopContinues(active) == active

\* What _complete_simulation hands back to the loop, which logs its success
\* flag and keeps nothing of it.
CompleteSimulation(ph, st, port, data) == GenerateFinalReport(ph, st, port, data)

\* One turn of task i of _physics_loop, from one await to the next: the while
\* test, and then a whole tick (dynamics, phase, record, completion), which
\* holds no await.  A port without configuration makes the dynamics raise
\* KeyError before anything is assigned; the handler sleeps 1 s and retries.
PhysicsLoopWithin(i, limit) ==
    /\ loops[i] \in {"scheduled", "sleep", "error_sleep"}
    /\ UNCHANGED calc
    /\ IF ~LoopContinues(simulation_active)
       THEN /\ loops' = [loops EXCEPT ![i] = "done"]
            /\ response' = [op |-> "_physics_loop", did |-> "exit"]
            /\ UNCHANGED <<spacecraft_state, docking_phase, target_port,
                           simulation_active, simulation_data, run>>
       ELSE IF ~PortConfigured(target_port)
       THEN /\ loops' = [loops EXCEPT ![i] = "error_sleep"]
            /\ response' = [op |-> "_physics_loop", did |-> "error"]
            /\ UNCHANGED <<spacecraft_state, docking_phase, target_port,
                           simulation_active, simulation_data, run>>
       ELSE /\ run.ticks < limit
            /\ spacecraft_state' =
                   UpdateSpacecraftDynamics(spacecraft_state, target_port)
            /\ docking_phase' =
                   UpdateDockingPhase(docking_phase, spacecraft_state',
                                      target_port)
            /\ simulation_data' =
                   RecordSimulationData(simulation_data, docking_phase',
                                        spacecraft_state')
            /\ IF docking_phase' \in Terminal
               THEN /\ simulation_active' = FALSE
                    /\ loops' = [loops EXCEPT ![i] = "done"]
                    /\ response' =
                           [op |-> "_physics_loop", did |-> "tick",
                            from |-> docking_phase, by |-> i,
                            final_report |->
                                CompleteSimulation(docking_phase',
                                                   spacecraft_state',
                                                   target_port,
                                                   simulation_data')]
               ELSE /\ simulation_active' = simulation_active
                    /\ loops' = [loops EXCEPT ![i] = "sleep"]
                    /\ response' = [op |-> "_physics_loop", did |-> "tick",
                                    from |-> docking_phase, by |-> i]
            /\ run' = [run EXCEPT !.ticks = @ + 1]
            /\ UNCHANGED target_port

PhysicsLoop(i) == PhysicsLoopWithin(i, MaxTicks)

\* abort_docking(reason): the phase and the active flag are set before the
\* report is computed, so they are set also when the report raises.
AbortDocking ==
    /\ docking_phase' = "ABORT"
    /\ simulation_active' = FALSE
    /\ response' = [op |-> "abort_docking",
                    result |-> GenerateFinalReport("ABORT", spacecraft_state,
                                                   target_port, simulation_data)]
    /\ run' = [run EXCEPT !.aborted = TRUE]
    /\ UNCHANGED <<spacecraft_state, target_port, simulation_data, loops,
                   calc>>

\* get_simulation_status
GetSimulationStatus ==
    /\ response' =
          IF ~simulation_active
          THEN [op |-> "get_simulation_status", status |-> "inactive"]
          ELSE IF ~PortConfigured(target_port)
          THEN [op |-> "get_simulation_status", raised |-> "KeyError"]
          ELSE [op |-> "get_simulation_status", status |-> "active",
                phase |-> docking_phase, target_port |-> target_port,
                position |-> spacecraft_state.position,
                velocity |-> spacecraft_state.velocity,
                distance_to_port |->
                    CalculateDistanceToPort(spacecraft_state, target_port),
                approach_velocity |-> Abs(spacecraft_state.velocity.x),
                simulation_time |->
                    Mul(Dec(Len(simulation_data), 0), physics_dt)]
    /\ UNCHANGED <<spacecraft_state, docking_phase, target_port,
                   simulation_active, simulation_data, loops, run, calc>>

Next ==
    \/ \E ic \in Scenarios : StartDockingSimulation(ic)
    \/ \E i \in DOMAIN loops : PhysicsLoop(i)
    \/ AbortDocking
    \/ GetSimulationStatus

Spec == Init /\ [][Next]_vars

(***************************************************************************)
(* A single undisturbed run: one start, no abort, no second start.  The    *)
(* spacecraft touches the port off the axis and drifts across it.          *)
(***************************************************************************)
MaxDriftTicks == 190

Drifting == [x |-> Dec(5, 1), y |-> Dec(8, 1), vx |-> Dec(8, 2),
             vy |-> Dec(-4, 2)]

StartDrift == run.id = 0 /\ StartDockingSimulation(Drifting)

DriftNext ==
    \/ StartDrift
    \/ \E i \in DOMAIN loops : PhysicsLoopWithin(i, MaxDriftTicks)

DriftSpec == Init /\ [][DriftNext]_vars

(***************************************************************************)
(* Properties                                                              *)
(***************************************************************************)
\* the step just taken was a physics tick (response.from is the phase it
\* started in, response.by the loop task that made it, and response.final_report
\* the report of _complete_simulation when the tick ended the run)
IsTick == response.op = "_physics_loop" /\ response.did = "tick"

\* the step just taken was a start that succeeded
IsStart ==
    response.op = "start_docking_simulation" /\ response.status = "success"

\* the run last started is still the one in the simulator's state
Undisturbed == run.ic # None /\ ~run.clobbered /\ ~run.aborted

Distance == CalculateDistanceToPort(spacecraft_state, target_port)

Speed == Magnitude(spacecraft_state.velocity)

Last(seq) == seq[Len(seq)]

PhaseEdges ==
    {<<"APPROACH", "PROXIMITY">>, <<"PROXIMITY", "FINAL_APPROACH">>,
     <<"FINAL_APPROACH", "CONTACT">>, <<"FINAL_APPROACH", "ABORT">>,
     <<"CONTACT", "CAPTURE">>, <<"CONTACT", "ABORT">>,
     <<"CAPTURE", "RETRACTION">>, <<"RETRACTION", "HARD_DOCK">>}

\* C1: a successful start puts the phase at APPROACH, and a physics tick
\* either keeps the phase or moves it along one of the eight listed edges;
\* so no tick takes more than one edge and none moves the phase back, not
\* even when the spacecraft leaves a zone it had entered.
C1_PhaseEdges ==
    [][/\ IsStart' => docking_phase' = "APPROACH"
       /\ IsTick' => \/ docking_phase' = docking_phase
                     \/ <<docking_phase, docking_phase'>> \in PhaseEdges]_vars

\* C1: a tick has left the spacecraft in PROXIMITY outside the 50 m zone
C1_Witness ==
    /\ IsTick
    /\ Undisturbed
    /\ docking_phase = "PROXIMITY"
    /\ Less(Dec(50, 0), Distance)

\* C2: once the phase is HARD_DOCK or ABORT no operation other than a new
\* successful start changes it, abort_docking included.
C2_TerminalStays ==
    [][(docking_phase \in Terminal /\ ~IsStart')
           => docking_phase' = docking_phase]_vars

Dot(u, v) == Add(Add(Mul(u.x, v.x), Mul(u.y, v.y)), Mul(u.z, v.z))

\* the rate at which a spacecraft `towards` away from the port nears it
ClosingSpeedAlong(towards, velocity, range) ==
    IF range = Zero THEN Zero ELSE Div(Dot(towards, velocity), range)

ClosingSpeed(st, port) ==
    ClosingSpeedAlong(VSub(docking_ports[port].position, st.position),
                      st.velocity, CalculateDistanceToPort(st, port))

ContactOrLater == {"CONTACT", "CAPTURE", "RETRACTION", "HARD_DOCK"}

\* the run in the simulator's state began inside the 10 m zone of a
\* configured port, closing faster than approach_velocity
StartedFastInsideFinalZone ==
    /\ Undisturbed
    /\ PortConfigured(target_port)
    /\ Less(CalculateDistanceToPort(InitialState(run.ic), target_port),
            Dec(10, 0))
    /\ Less(approach_velocity, ClosingSpeed(InitialState(run.ic), target_port))

\* C4: a run started inside the 10 m zone with a closing speed above
\* approach_velocity never makes contact, and when its loop has stopped the
\* phase is ABORT.
C4_OverspeedAborts ==
    StartedFastInsideFinalZone
        => /\ docking_phase \notin ContactOrLater
           /\ (~simulation_active => docking_phase = "ABORT")

IsZeroVector(v) == v = ZeroVector

\* the run in the simulator's state began at rest exactly at HARMONY_FORWARD
StartedAtRestAtForward ==
    /\ Undisturbed
    /\ target_port = "HARMONY_FORWARD"
    /\ InitialState(run.ic).position = docking_ports[target_port].position
    /\ IsZeroVector(InitialState(run.ic).velocity)
    /\ IsZeroVector(InitialState(run.ic).attitude)

\* C5: a run started at rest exactly at HARMONY_FORWARD is never in ABORT,
\* and from its fourth tick on it is in CAPTURE or beyond.
C5_ImmediateCapture ==
    StartedAtRestAtForward
        => /\ docking_phase # "ABORT"
           /\ run.ticks >= 4
                  => docking_phase \in {"CAPTURE", "RETRACTION", "HARD_DOCK"}

\* C5: the fourth tick of such a run has just engaged the capture mechanism
C5_Witness ==
    /\ StartedAtRestAtForward
    /\ IsTick
    /\ run.ticks = 4
    /\ docking_phase = "CAPTURE"

\* C6: a tick that starts in FINAL_APPROACH leaves the phase alone while the
\* updated distance is 1 m or more; inside 1 m it enters CONTACT when the
\* updated speed is below approach_velocity and ABORT otherwise.  Hence
\* CONTACT is entered only with distance < 1 m and speed < approach_velocity.
C6_FinalApproachDecision ==
    (IsTick /\ response.from = "FINAL_APPROACH")
        => docking_phase =
               IF ~Less(Distance, Dec(1, 0)) THEN "FINAL_APPROACH"
               ELSE IF Less(Speed, approach_velocity) THEN "CONTACT"
               ELSE "ABORT"

\* C6: a run stayed in FINAL_APPROACH outside 1 m and was then aborted by a
\* tick that found it inside 1 m at approach_velocity or more
C6_Witness ==
    /\ IsTick
    /\ Undisturbed
    /\ docking_phase = "ABORT"
    /\ Len(simulation_data) >= 3
    /\ simulation_data[Len(simulation_data) - 1].phase = "FINAL_APPROACH"
    /\ simulation_data[Len(simulation_data) - 2].phase = "FINAL_APPROACH"
    /\ Less(Distance, Dec(1, 0))
    /\ ~Less(Speed, approach_velocity)

\* the spacecraft is at rest exactly at the target port, attitude zero
AtRestAtTargetPort ==
    /\ PortConfigured(target_port)
    /\ spacecraft_state.position = docking_ports[target_port].position
    /\ IsZeroVector(spacecraft_state.velocity)
    /\ IsZeroVector(spacecraft_state.attitude)

\* C7: at each configured port, HARMONY_NADIR included, a tick that starts
\* in CONTACT and finds the spacecraft at rest exactly at the target port with
\* zero attitude engages the capture mechanism.
C7_CaptureAtEveryPort ==
    (IsTick /\ response.from = "CONTACT" /\ AtRestAtTargetPort)
        => docking_phase = "CAPTURE"

\* C8: a tick that starts in CONTACT and finds the updated distance above
\* 2 m sets the phase to ABORT; CAPTURE is not entered at such a tick.
C8_LostContactAborts ==
    (IsTick /\ response.from = "CONTACT" /\ Less(Dec(2, 0), Distance))
        => docking_phase = "ABORT"

C10_AbortAlwaysReports ==
    response.op = "abort_docking" => "raised" \notin DOMAIN response.result

(***************************************************************************)
(* A single run of any length up to MaxLongTicks, with status queries and  *)
(* an abort: long enough for the history to reach its limit.               *)
(***************************************************************************)
MaxLongTicks == 1001

\* no key given: every coordinate takes the code's default
Defaults == [k \in {} |-> Zero]

SingleRunScenarios == {Defaults, Drifting, AtPortAtRest, Overspeed}

StartSingleRun ==
    run.id = 0 /\ \E ic \in SingleRunScenarios : StartDockingSimulation(ic)

SingleRunNext ==
    \/ StartSingleRun
    \/ \E i \in DOMAIN loops : PhysicsLoopWithin(i, MaxLongTicks)
    \/ AbortDocking
    \/ GetSimulationStatus

SingleRunSpec == Init /\ [][SingleRunNext]_vars

\* the run in the simulator's state reached a terminal phase by its own ticks
EndedByItself ==
    /\ Undisturbed
    /\ run.ticks >= 1
    /\ docking_phase \in Terminal
    /\ ~simulation_active

\* C11: after a run has ended through its own phase logic, a status query
\* still gives the caller the terminal phase of the run (with it the success
\* flag), not merely 'inactive'.
C11_ReportObtainable ==
    (response.op = "get_simulation_status" /\ EndedByItself)
        => /\ "phase" \in DOMAIN response
           /\ response.phase = docking_phase

\* the step just taken produced a final report
HasReport ==
    \/ response.op = "abort_docking" /\ "raised" \notin DOMAIN response.result
    \/ IsTick /\ "final_report" \in DOMAIN response

FinalReport ==
    IF response.op = "abort_docking" THEN response.result
    ELSE response.final_report

ScoreOf(final_phase, total_time, fuel_consumed) ==
    IF final_phase # "HARD_DOCK" THEN 0
    ELSE 80 + (IF Less(total_time, Dec(600, 0)) THEN 10 ELSE 0)
            + (IF Less(fuel_consumed, Dec(5, 0)) THEN 10 ELSE 0)

ElapsedTime == Mul(Dec(run.ticks, 0), physics_dt)

\* C13: the elapsed time of a final report (total_time) and of a status
\* (simulation_time) is the number of ticks the run has made times the tick
\* interval, however long the run.
C13_ElapsedTime ==
    /\ HasReport => FinalReport.total_time = ElapsedTime
    /\ (response.op = "get_simulation_status"
            /\ "simulation_time" \in DOMAIN response)
           => response.simulation_time = ElapsedTime

\* C14: one loop task alone drives a simulator: of two ticks in a row the
\* second is made by the task that made the first.
C14_SingleTickDriver ==
    [][(IsTick /\ IsTick') => response'.by = response.by]_vars

(***************************************************************************)
(* OrbitalMechanicsCalculator: launch windows                              *)
(***************************************************************************)
EARTH_MU     == Add(Mul(Dec(398600, 0), Dec(1000000000, 0)), Dec(441800000, 0))
EARTH_RADIUS == Dec(6378137, 0)

Max(x, y) == IF Less(x, y) THEN y ELSE x

\* a variant that falls back to a due-east launch when the sine is out of range
AzimuthOfSineDefaulting(sin_az) ==
    IF Less(ONE, Abs(sin_az)) THEN HalfPi ELSE ArcSin(sin_az)

\* the end of _calculate_launch_azimuth: None when the sine is out of range
AzimuthOfSine(sin_az) ==
    IF Less(ONE, Abs(sin_az)) THEN None ELSE ArcSin(sin_az)

\* _calculate_launch_azimuth(lat, inc, raan, launch_time), angles in radians.
\* The sidereal time it computes from launch_time is not used.
CalculateLaunchAzimuth(lat, inc) ==
    IF Less(inc, Abs(lat)) THEN None
    ELSE AzimuthOfSine(Div(Cos(inc), Cos(lat)))

AbsInt(n) == IF n < 0 THEN -n ELSE n

\* _score_launch_window(launch_time, azimuth, delta_v)
ScoreLaunchWindow(hour, azimuth, delta_v) ==
    LET hour_score    == Dec(100 - AbsInt(hour - 12) * 2, 0)
        azimuth_score ==
            Sub(Dec(100, 0),
                Mul(Abs(Sub(Degrees(azimuth), Dec(90, 0))), Dec(5, 1)))
        dv_score ==
            Max(Zero, Sub(Dec(100, 0),
                          Mul(Sub(delta_v, Dec(9000, 0)), Dec(1, 2))))
    IN  DivInt(Add(Add(hour_score, azimuth_score), dv_score), 3)

\* the dictionary appended for a candidate with the delta-v figures given
WindowWith(day, hour, azimuth, dv_orbit_insertion, total_dv) ==
    [launch_time        |-> [day |-> day, hour |-> hour],
     azimuth            |-> Degrees(azimuth),
     delta_v_required   |-> total_dv,
     orbit_insertion_dv |-> dv_orbit_insertion,
     window_score       |-> ScoreLaunchWindow(hour, azimuth, total_dv)]

InsertionDeltaV(semi_major_axis) ==
    Sub(Sqrt(Div(EARTH_MU, semi_major_axis)),
        Sqrt(Div(EARTH_MU, EARTH_RADIUS)))

LossesDeltaV == Dec(1500 + 200 + 100, 0)

\* the body of the loop for one candidate: the window, or None when the
\* candidate is dropped
WindowOrNone(day, hour, azimuth, dv_orbit_insertion) ==
    IF azimuth = None THEN None
    ELSE WindowWith(day, hour, azimuth, dv_orbit_insertion,
                    Add(dv_orbit_insertion, LossesDeltaV))

IsWindow(w) == w # None

\* a variant that sorts the worst window first
SortByScoreAscending(ws) ==
    LET n == Len(ws)
        rank == [i \in 1..n |->
                    1 + Cardinality({j \in 1..n :
                            \/ Less(ws[j].window_score, ws[i].window_score)
                            \/ ws[j].window_score = ws[i].window_score /\ j < i})]
    IN  [k \in 1..n |-> ws[CHOOSE i \in 1..n : rank[i] = k]]

\* launch_windows.sort(key=window_score, reverse=True): best first, windows
\* of equal score in the order they were appended
SortByScore(ws) ==
    LET n == Len(ws)
        rank == [i \in 1..n |->
                    1 + Cardinality({j \in 1..n :
                            \/ Less(ws[i].window_score, ws[j].window_score)
                            \/ ws[j].window_score = ws[i].window_score /\ j < i})]
    IN  [k \in 1..n |-> ws[CHOOSE i \in 1..n : rank[i] = k]]

TOP_WINDOWS == 10

HOURS_CHECKED == 12

\* launch_windows.sort(...); return launch_windows[:10]
TopWindows(launch_windows) ==
    SubSeq(SortByScore(launch_windows), 1,
           Min(TOP_WINDOWS, Len(launch_windows)))

\* the candidates of the grid in the order the loops visit them: day by day
\* and, within a day, every second hour
GridWindows(search_days, azimuth, dv_orbit_insertion) ==
    SelectSeq([k \in 1..(HOURS_CHECKED * search_days) |->
                  WindowOrNone((k - 1) \div HOURS_CHECKED,
                               2 * ((k - 1) % HOURS_CHECKED),
                               azimuth, dv_orbit_insertion)],
              IsWindow)

\* The list optimize_launch_window has built when its loops end.  The loop
\* computes the azimuth and the insertion delta-v anew for every candidate,
\* from arguments that do not change with the candidate.
LaunchWindows(target_elements, launch_site_lat, search_days) ==
    GridWindows(search_days,
                CalculateLaunchAzimuth(Radians(launch_site_lat),
                                       target_elements.inclination),
                InsertionDeltaV(target_elements.semi_major_axis))

\* optimize_launch_window(target_elements, launch_site_lat, search_days)
OptimizeLaunchWindow(target_elements, launch_site_lat, search_days) ==
    TopWindows(LaunchWindows(target_elements, launch_site_lat, search_days))

(***************************************************************************)
(* OrbitalMechanicsCalculator: propagation                                 *)
(***************************************************************************)
EARTH_J2 == Dec(108262982, 11)

\* what floats yield where the reals have nothing: nan for 0/0, an infinity
\* for a non-zero number over zero
NaN    == [nan |-> TRUE]
Inf    == [inf |-> TRUE, neg |-> FALSE]
NegInf == [inf |-> TRUE, neg |-> TRUE]

IsFinite(x) == "mag" \in DOMAIN x
IsInf(x)    == "inf" \in DOMAIN x

\* the infinity of the given sign
InfOf(neg) == IF neg THEN NegInf ELSE Inf

\* np.linalg.norm of a vector: the root of the sum of the squares, the squares
\* kept in full so that the norm of (x, 0, 0) is |x| as it is for floats
Norm(v) ==
    Mk(FALSE, NSqrt(NAdd(NAdd(NMul(v.x.mag, v.x.mag), NMul(v.y.mag, v.y.mag)),
                         NMul(v.z.mag, v.z.mag))))

\* x / y as numpy computes it for finite floats
FloatDiv(x, y) ==
    IF y # Zero THEN Div(x, y) ELSE IF x = Zero THEN NaN ELSE InfOf(x.neg)

Cube(r)  == Mul(r, Mul(r, r))
Fifth(r) == Mul(Mul(r, r), Cube(r))

\* the J2 term of _acceleration for the position (x, y, z) at distance r:
\* j2_factor = j2_num / r^5 times the position weighted with q = 5 z^2 / r^2,
\* the division last so that no digit of the small factor is lost
J2Acceleration(x, y, z, j2_num, r5, q) ==
    Vector3D(Div(Mul(j2_num, Mul(x, Sub(q, ONE))), r5),
             Div(Mul(j2_num, Mul(y, Sub(q, ONE))), r5),
             Div(Mul(j2_num, Mul(z, Sub(q, Dec(3, 0)))), r5))

NaNVector == Vector3D(NaN, NaN, NaN)

\* _acceleration for a position at distance r from the centre; at the centre
\* every component is 0/0
AccelerationAt(position, r) ==
    IF r = Zero THEN NaNVector
    ELSE VAdd(Vector3D(Div(Mul(Neg(EARTH_MU), position.x), Cube(r)),
                       Div(Mul(Neg(EARTH_MU), position.y), Cube(r)),
                       Div(Mul(Neg(EARTH_MU), position.z), Cube(r))),
              J2Acceleration(position.x, position.y, position.z,
                             Mul(Mul(Mul(Dec(15, 1), EARTH_J2), EARTH_MU),
                                 Mul(EARTH_RADIUS, EARTH_RADIUS)),
                             Fifth(r),
                             Div(Mul(Dec(5, 0), Mul(position.z, position.z)),
                                 Mul(r, r))))

\* _acceleration(position); arithmetic on nan gives nan
Acceleration(position) ==
    IF position = NaNVector THEN NaNVector
    ELSE AccelerationAt(position, Norm(position))

\* r0 + (k1 + 2 k2 + 2 k3 + k4) / 6
Rk4Combine(r0, k1, k2, k3, k4) ==
    VAdd(r0, VDivInt(VAdd(VAdd(k1, VScale(k2, Dec(2, 0))),
                          VAdd(VScale(k3, Dec(2, 0)), k4)), 6))

\* the state a step ends in once one of its accelerations is nan
NaNState == [position |-> NaNVector, velocity |-> NaNVector]

Rk4Stage5(r0, v0, dt, k1_r, k1_v, k2_r, k2_v, k3_r, k3_v, a4) ==
    IF a4 = NaNVector THEN NaNState
    ELSE [position |-> Rk4Combine(r0, k1_r, k2_r, k3_r,
                                  VScale(VAdd(v0, k3_v), dt)),
          velocity |-> Rk4Combine(v0, k1_v, k2_v, k3_v, VScale(a4, dt))]

Rk4Stage4(r0, v0, dt, k1_r, k1_v, k2_r, k2_v, a3) ==
    IF a3 = NaNVector THEN NaNState
    ELSE Rk4Stage5(r0, v0, dt, k1_r, k1_v, k2_r, k2_v,
                   VScale(VAdd(v0, VDivInt(k2_v, 2)), dt), VScale(a3, dt),
                   Acceleration(VAdd(r0, VScale(VAdd(v0, VDivInt(k2_v, 2)),
                                                dt))))

Rk4Stage3(r0, v0, dt, k1_r, k1_v, a2) ==
    IF a2 = NaNVector THEN NaNState
    ELSE Rk4Stage4(r0, v0, dt, k1_r, k1_v,
                   VScale(VAdd(v0, VDivInt(k1_v, 2)), dt), VScale(a2, dt),
                   Acceleration(VAdd(r0,
                       VDivInt(VScale(VAdd(v0, VDivInt(k1_v, 2)), dt), 2))))

Rk4Stage2(r0, v0, dt, a1) ==
    IF a1 = NaNVector THEN NaNState
    ELSE Rk4Stage3(r0, v0, dt, VScale(v0, dt), VScale(a1, dt),
                   Acceleration(VAdd(r0, VDivInt(VScale(v0, dt), 2))))

\* _rk4_step(state, dt): position and velocity after the step
Rk4Step(state, dt) ==
    IF state.position = NaNVector THEN NaNState
    ELSE Rk4Stage2(state.position, state.velocity, dt,
                   Acceleration(state.position))

\* the angle of (x, y) at distance r > 0 from the origin: the arcsine where
\* the point is nearer the x axis, the arccosine elsewhere
ArcTan2At(y, x, r) ==
    IF Less(Abs(y), Abs(x))
    THEN IF x.neg
         THEN IF y.neg THEN Sub(Neg(Pi), ArcSin(Div(y, r)))
              ELSE Sub(Pi, ArcSin(Div(y, r)))
         ELSE ArcSin(Div(y, r))
    ELSE IF y.neg THEN Neg(ArcCos(Div(x, r))) ELSE ArcCos(Div(x, r))

ArcTan2(y, x) ==
    IF x = Zero /\ y = Zero THEN Zero
    ELSE ArcTan2At(y, x, Sqrt(Add(Mul(x, x), Mul(y, y))))

\* the two while loops that bring a longitude into [-180, 180]
RECURSIVE NormalizeLongitude(_)
NormalizeLongitude(longitude) ==
    IF Less(Dec(180, 0), longitude)
    THEN NormalizeLongitude(Sub(longitude, Dec(360, 0)))
    ELSE IF Less(longitude, Dec(-180, 0))
    THEN NormalizeLongitude(Add(longitude, Dec(360, 0)))
    ELSE longitude

SECONDS_PER_DAY == 86400

\* Greenwich mean sidereal time in hours; epoch is in seconds since
\* 2000-01-01 12:00
GmstHours(epoch) ==
    Mod(Add(Add(Dec(18, 0), Dec(697374558, 9)),
            Mul(Add(Dec(24065709, 6), Dec(82441908, 14)),
                DivInt(epoch, SECONDS_PER_DAY))),
        Dec(24, 0))

\* _eci_to_lla for a position at distance r > 0
EciToLlaAt(position, epoch, r) ==
    [altitude  |-> Sub(r, EARTH_RADIUS),
     latitude  |-> Degrees(ArcSin(Div(position.z, r))),
     longitude |->
         NormalizeLongitude(
             Degrees(Sub(ArcTan2(position.y, position.x),
                         DivInt(Mul(GmstHours(epoch), Pi), 12))))]

\* _eci_to_lla(position, epoch); at the centre the latitude is arcsin(0/0)
EciToLla(position, epoch) ==
    IF position = NaNVector
    THEN [altitude |-> NaN, latitude |-> NaN, longitude |-> NaN]
    ELSE IF position = ZeroVector
    THEN [altitude  |-> Neg(EARTH_RADIUS),
          latitude  |-> NaN,
          longitude |->
              NormalizeLongitude(
                  Degrees(Neg(DivInt(Mul(GmstHours(epoch), Pi), 12))))]
    ELSE EciToLlaAt(position, epoch, Norm(position))

TrajectoryPoint(state, lla) ==
    [time      |-> state.epoch,
     position  |-> state.position,
     velocity  |-> state.velocity,
     altitude  |-> lla.altitude,
     latitude  |-> lla.latitude,
     longitude |-> lla.longitude]

PROPAGATION_STEP == 60

\* the step taken without moving the epoch on
NextStateAtSameEpoch(current_state, dt) ==
    Rk4Step(current_state, Dec(dt, 0)) @@ [epoch |-> current_state.epoch]

\* the state the loop of propagate_orbit goes on with after a point
NextState(current_state, dt) ==
    Rk4Step(current_state, Dec(dt, 0))
        @@ [epoch |-> Add(current_state.epoch, Dec(dt, 0))]

\* the points propagate_orbit appends from step i on
RECURSIVE Trajectory(_, _, _)
Trajectory(current_state, i, n_steps) ==
    IF i > n_steps THEN <<>>
    ELSE <<TrajectoryPoint(current_state,
                           EciToLla(current_state.position,
                                    current_state.epoch))>>
         \o (IF i < n_steps
             THEN Trajectory(NextState(current_state, PROPAGATION_STEP),
                             i + 1, n_steps)
             ELSE <<>>)

\* int(total_seconds / dt): the quotient cut towards zero
StepsIn(total_seconds, dt) ==
    IF total_seconds < 0 THEN -((-total_seconds) \div dt)
    ELSE total_seconds \div dt

\* propagate_orbit(state, duration), the duration in whole seconds
PropagateOrbit(state, total_seconds) ==
    Trajectory(state, 0, StepsIn(total_seconds, PROPAGATION_STEP))

(***************************************************************************)
(* OrbitalMechanicsCalculator: state vector to Keplerian elements          *)
(***************************************************************************)
\* the threshold below which a node vector or an eccentricity counts as zero
TINY == Dec(1, 6)

Cross(u, w) ==
    Vector3D(Sub(Mul(u.y, w.z), Mul(u.z, w.y)),
             Sub(Mul(u.z, w.x), Mul(u.x, w.z)),
             Sub(Mul(u.x, w.y), Mul(u.y, w.x)))

\* np.cross([0, 0, 1], h_vec)
NodeVector(h_vec) == Vector3D(Neg(h_vec.y), h_vec.x, Zero)

\* ((v^2 - mu / r) r_vec - (r_vec . v_vec) v_vec) / mu, for r > 0
EccentricityVectorOf(r_vec, v_vec, c, d) ==
    Vector3D(Div(Sub(Mul(c, r_vec.x), Mul(d, v_vec.x)), EARTH_MU),
             Div(Sub(Mul(c, r_vec.y), Mul(d, v_vec.y)), EARTH_MU),
             Div(Sub(Mul(c, r_vec.z), Mul(d, v_vec.z)), EARTH_MU))

EccentricityVector(r_vec, v_vec, r, v) ==
    EccentricityVectorOf(r_vec, v_vec, Sub(Mul(v, v), Div(EARTH_MU, r)),
                         Dot(r_vec, v_vec))

\* np.arccos: nan outside [-1, 1] and of nan
NpArcCos(x) ==
    IF ~IsFinite(x) THEN NaN
    ELSE IF Less(ONE, Abs(x)) THEN NaN
    ELSE ArcCos(x)

\* 2 pi - angle
Reflect(angle) == IF angle = NaN THEN NaN ELSE Sub(TwoPi, angle)

\* the angle, taken on the far side of the half turn when far_side holds
AngleOnSide(angle, far_side) == IF far_side THEN Reflect(angle) ELSE angle

SemiMajorAxis(e, energy) ==
    IF Less(TINY, Abs(Sub(e, ONE)))
    THEN FloatDiv(Neg(EARTH_MU), Mul(Dec(2, 0), energy))
    ELSE Inf

Inclination(h_vec, h) == NpArcCos(FloatDiv(h_vec.z, h))

Raan(n_vec, n) ==
    IF Less(TINY, n)
    THEN AngleOnSide(NpArcCos(Div(n_vec.x, n)), n_vec.y.neg)
    ELSE Zero

ArgumentOfPerigee(n_vec, n, e_vec, e) ==
    IF Less(TINY, n) /\ Less(TINY, e)
    THEN AngleOnSide(NpArcCos(FloatDiv(Dot(n_vec, e_vec), Mul(n, e))),
                     e_vec.z.neg)
    ELSE Zero

TrueAnomaly(r_vec, v_vec, r, n_vec, n, e_vec, e) ==
    IF Less(TINY, e)
    THEN AngleOnSide(NpArcCos(FloatDiv(Dot(e_vec, r_vec), Mul(e, r))),
                     Dot(r_vec, v_vec).neg)
    ELSE AngleOnSide(NpArcCos(FloatDiv(Dot(n_vec, r_vec), Mul(n, r))),
                     r_vec.z.neg)

OrbitalElements(a, e, i, raan, arg_pe, nu, epoch) ==
    [semi_major_axis     |-> a,
     eccentricity        |-> e,
     inclination         |-> i,
     raan                |-> raan,
     argument_of_perigee |-> arg_pe,
     true_anomaly        |-> nu,
     epoch               |-> epoch]

\* the elements once the vectors and their lengths are known, for r > 0
ElementsFrom(state, r, v, h_vec, h, n_vec, n, e_vec, e) ==
    OrbitalElements(
        SemiMajorAxis(e, Sub(DivInt(Mul(v, v), 2), Div(EARTH_MU, r))),
        e,
        Inclination(h_vec, h),
        Raan(n_vec, n),
        ArgumentOfPerigee(n_vec, n, e_vec, e),
        TrueAnomaly(state.position, state.velocity, r, n_vec, n, e_vec, e),
        state.epoch)

ElementsWithEccentricity(state, r, v, h_vec, e_vec) ==
    ElementsFrom(state, r, v, h_vec, Norm(h_vec), NodeVector(h_vec),
                 Norm(NodeVector(h_vec)), e_vec, Norm(e_vec))

ElementsAt(state, r, v) ==
    ElementsWithEccentricity(
        state, r, v, Cross(state.position, state.velocity),
        EccentricityVector(state.position, state.velocity, r, v))

\* cartesian_to_orbital_elements(state).  At r = 0 the term mu / r is inf, the
\* eccentricity vector (v^2 - inf) * 0 is nan and every comparison with the
\* nan eccentricity fails: a is inf, raan and arg_pe are 0.0, and the
\* inclination and the true anomaly are arccos(0 / 0).
CartesianToOrbitalElements(state) ==
    IF state.position = ZeroVector
    THEN OrbitalElements(Inf, NaN, NaN, Zero, Zero, NaN, state.epoch)
    ELSE ElementsAt(state, Norm(state.position),
                    Norm(state.velocity))

(***************************************************************************)
(* Float arithmetic on numbers that may be nan or infinite                 *)
(***************************************************************************)
FNeg(x) ==
    IF x = NaN THEN NaN ELSE IF IsInf(x) THEN InfOf(~x.neg) ELSE Neg(x)

FAbs(x) == IF x = NaN THEN NaN ELSE IF IsInf(x) THEN Inf ELSE Abs(x)

FAdd(x, y) ==
    IF x = NaN \/ y = NaN THEN NaN
    ELSE IF IsInf(x) THEN (IF IsInf(y) /\ y.neg # x.neg THEN NaN ELSE x)
    ELSE IF IsInf(y) THEN y
    ELSE Add(x, y)

FSub(x, y) == FAdd(x, FNeg(y))

FMul(x, y) ==
    IF x = NaN \/ y = NaN THEN NaN
    ELSE IF IsInf(x) \/ IsInf(y)
    THEN (IF x = Zero \/ y = Zero THEN NaN ELSE InfOf(x.neg # y.neg))
    ELSE Mul(x, y)

FDiv(x, y) ==
    IF x = NaN \/ y = NaN THEN NaN
    ELSE IF IsInf(x) THEN (IF IsInf(y) THEN NaN ELSE InfOf(x.neg # y.neg))
    ELSE IF IsInf(y) THEN Zero
    ELSE FloatDiv(x, y)

\* np.sqrt: nan below zero
FSqrt(x) ==
    IF x = NaN THEN NaN
    ELSE IF IsInf(x) THEN (IF x.neg THEN NaN ELSE Inf)
    ELSE IF x.neg THEN NaN
    ELSE Sqrt(x)

\* x > y, false when either is nan
FGreater(x, y) ==
    IF x = NaN \/ y = NaN THEN FALSE
    ELSE IF IsInf(x) THEN ~x.neg /\ y # Inf
    ELSE IF IsInf(y) THEN y.neg
    ELSE Less(y, x)

FDegrees(rad) == IF IsFinite(rad) THEN Degrees(rad) ELSE rad

(***************************************************************************)
(* OrbitalMechanicsCalculator: Hohmann transfer and rendezvous plan        *)
(***************************************************************************)
\* sqrt(mu * (2 / r - 1 / a_transfer)), the products taken before the
\* quotients so that no digit of the small quotients is lost
TransferSpeed(r, a_transfer) ==
    FSqrt(FSub(FDiv(Mul(Dec(2, 0), EARTH_MU), r), FDiv(EARTH_MU, a_transfer)))

CircularSpeedAt(r) == FSqrt(FDiv(EARTH_MU, r))

\* x ** (3/2)
PowerThreeHalves(x) == FMul(x, FSqrt(x))

SECONDS_PER_HOUR == 3600

HohmannWith(r1, r2, a_transfer, dv1, dv2) ==
    [delta_v_1              |-> dv1,
     delta_v_2              |-> dv2,
     total_delta_v          |-> FAdd(FAbs(dv1), FAbs(dv2)),
     transfer_time          |->
         FDiv(FMul(Pi, FSqrt(FDiv(FMul(a_transfer,
                                       FMul(a_transfer, a_transfer)),
                                  EARTH_MU))),
              Dec(SECONDS_PER_HOUR, 0)),
     phase_angle            |->
         FDegrees(FMul(Pi, FSub(ONE, PowerThreeHalves(
                                         FDiv(FAdd(r1, r2),
                                              FMul(Dec(2, 0), r2)))))),
     transfer_orbit_apogee  |-> r2,
     transfer_orbit_perigee |-> r1]

HohmannVia(r1, r2, a_transfer) ==
    HohmannWith(r1, r2, a_transfer,
                FSub(TransferSpeed(r1, a_transfer), CircularSpeedAt(r1)),
                FSub(CircularSpeedAt(r2), TransferSpeed(r2, a_transfer)))

\* calculate_hohmann_transfer(r1, r2)
CalculateHohmannTransfer(r1, r2) ==
    HohmannVia(r1, r2, FDiv(FAdd(r1, r2), Dec(2, 0)))

\* timedelta(seconds=x) keeps whole microseconds, the nearest ones
Microseconds(x) ==
    Div(Floor(Add(Mul(x, Dec(1000000, 0)), Dec(5, 1))), Dec(1000000, 0))

Maneuver(type, delta_v_magnitude, execution_time) ==
    [type              |-> type,
     delta_v_magnitude |-> delta_v_magnitude,
     execution_time    |-> execution_time]

\* phase 1 of the plan: the plane change, when the inclinations differ
PlaneChange(chaser_state, delta_i) ==
    IF FGreater(FAbs(delta_i), Dec(1, 3))
    THEN <<Maneuver("plane_change",
                    Mul(Mul(Dec(2, 0), Norm(chaser_state.velocity)),
                        Sin(DivInt(Abs(delta_i), 2))),
                    Add(chaser_state.epoch, Dec(SECONDS_PER_HOUR, 0)))>>
    ELSE <<>>

\* the two burns of the transfer, for a finite transfer time
TransferBurns(chaser_state, hohmann) ==
    <<Maneuver("hohmann_transfer_1", FAbs(hohmann.delta_v_1),
               Add(chaser_state.epoch, Dec(2 * SECONDS_PER_HOUR, 0))),
      Maneuver("hohmann_transfer_2", FAbs(hohmann.delta_v_2),
               Add(Add(chaser_state.epoch, Dec(2 * SECONDS_PER_HOUR, 0)),
                   Microseconds(Mul(hohmann.transfer_time,
                                    Dec(SECONDS_PER_HOUR, 0)))))>>

\* what timedelta(seconds=transfer_time * 3600) raises: OverflowError for an
\* infinite and ValueError for a nan number of seconds
TransferTimeError(transfer_time) ==
    IF IsInf(transfer_time) THEN "OverflowError"
    ELSE IF transfer_time = NaN THEN "ValueError"
    ELSE "none"

\* the transfer planned only for orbits more than 1000 km apart
PhasingNeededFar(delta_a) == FGreater(FAbs(delta_a), Dec(1000000, 0))

\* phase 2 of the plan is entered when the semi-major axes differ
PhasingNeeded(delta_a) == FGreater(FAbs(delta_a), Dec(1000, 0))

\* phase 3 of the plan
FinalApproach(chaser_state) ==
    <<Maneuver("final_approach", Dec(50, 0),
               Add(chaser_state.epoch, Dec(6 * SECONDS_PER_HOUR, 0)))>>

\* sum(m['delta_v_magnitude'] for m in maneuvers)
RECURSIVE TotalDeltaV(_)
TotalDeltaV(maneuvers) ==
    IF maneuvers = <<>> THEN Zero
    ELSE FAdd(TotalDeltaV(SubSeq(maneuvers, 1, Len(maneuvers) - 1)),
              maneuvers[Len(maneuvers)].delta_v_magnitude)

\* total_dv / (9.81 * 450) * 1000
FuelRequired(total_dv) ==
    FMul(FDiv(total_dv, Mul(Dec(981, 2), Dec(450, 0))), Dec(1000, 0))

PlanWith(maneuvers, total_dv, delta_a, delta_e, delta_i) ==
    [maneuvers          |-> maneuvers,
     total_delta_v      |-> total_dv,
     estimated_duration |-> Dec(8, 0),
     fuel_required      |-> FuelRequired(total_dv),
     relative_elements  |->
         [delta_semi_major_axis |-> delta_a,
          delta_eccentricity    |-> delta_e,
          delta_inclination     |-> FDegrees(delta_i)]]

PlanOf(maneuvers, delta_a, delta_e, delta_i) ==
    PlanWith(maneuvers, TotalDeltaV(maneuvers), delta_a, delta_e, delta_i)

PlanWithTransfer(chaser_state, hohmann, delta_a, delta_e, delta_i) ==
    IF TransferTimeError(hohmann.transfer_time) # "none"
    THEN [raised |-> TransferTimeError(hohmann.transfer_time)]
    ELSE PlanOf(PlaneChange(chaser_state, delta_i)
                    \o TransferBurns(chaser_state, hohmann)
                    \o FinalApproach(chaser_state),
                delta_a, delta_e, delta_i)

PlanFromDeltas(chaser_state, chaser_elements, target_elements, delta_a,
               delta_e, delta_i) ==
    IF PhasingNeeded(delta_a)
    THEN PlanWithTransfer(chaser_state,
                          CalculateHohmannTransfer(
                              chaser_elements.semi_major_axis,
                              target_elements.semi_major_axis),
                          delta_a, delta_e, delta_i)
    ELSE PlanOf(PlaneChange(chaser_state, delta_i)
                    \o FinalApproach(chaser_state),
                delta_a, delta_e, delta_i)

PlanFor(chaser_state, chaser_elements, target_elements) ==
    PlanFromDeltas(
        chaser_state, chaser_elements, target_elements,
        FSub(target_elements.semi_major_axis, chaser_elements.semi_major_axis),
        FSub(target_elements.eccentricity, chaser_elements.eccentricity),
        FSub(target_elements.inclination, chaser_elements.inclination))

\* plan_rendezvous_maneuver(chaser_state, target_state): the plan, or the
\* exception raised on the way (the description texts are left out, the
\* execution times are in seconds since 2000-01-01 12:00)
PlanRendezvousManeuver(chaser_state, target_state) ==
    PlanFor(chaser_state, CartesianToOrbitalElements(chaser_state),
            CartesianToOrbitalElements(target_state))

(***************************************************************************)
(* OrbitalMechanicsCalculator: elements to state vector                    *)
(***************************************************************************)
\* matrices are triples of rows, a row a triple of numbers
RotationMatrixXOf(c, s) ==
    <<<<ONE, Zero, Zero>>, <<Zero, c, s>>, <<Zero, Neg(s), c>>>>

\* _rotation_matrix_x(angle)
RotationMatrixX(angle) == RotationMatrixXOf(Cos(angle), Sin(angle))

RotationMatrixZOf(c, s) ==
    <<<<c, s, Zero>>, <<Neg(s), c, Zero>>, <<Zero, Zero, ONE>>>>

\* _rotation_matrix_z(angle)
RotationMatrixZ(angle) == RotationMatrixZOf(Cos(angle), Sin(angle))

\* row times the column j of the matrix B
RowByColumn(row, B, j) ==
    Add(Add(Mul(row[1], B[1][j]), Mul(row[2], B[2][j])), Mul(row[3], B[3][j]))

RowByMatrix(row, B) ==
    <<RowByColumn(row, B, 1), RowByColumn(row, B, 2), RowByColumn(row, B, 3)>>

\* A @ B
MatMul(A, B) ==
    <<RowByMatrix(A[1], B), RowByMatrix(A[2], B), RowByMatrix(A[3], B)>>

RowByVector(row, v) ==
    Add(Add(Mul(row[1], v.x), Mul(row[2], v.y)), Mul(row[3], v.z))

\* A @ v
MatVec(A, v) ==
    Vector3D(RowByVector(A[1], v), RowByVector(A[2], v), RowByVector(A[3], v))

\* R3_raan @ R1_inc @ R3_arg_pe
PerifocalToEci(raan, i, arg_pe) ==
    MatMul(MatMul(RotationMatrixZ(Neg(raan)), RotationMatrixX(Neg(i))),
           RotationMatrixZ(Neg(arg_pe)))

\* r_pf and v_pf taken to the inertial frame; speed is the factor of the
\* velocity components and e_or_one the term added to cos(nu)
StateInFrame(R_pf_to_eci, r, cos_nu, sin_nu, speed, e_or_one, epoch) ==
    [position |-> MatVec(R_pf_to_eci,
                         Vector3D(Mul(r, cos_nu), Mul(r, sin_nu), Zero)),
     velocity |-> MatVec(R_pf_to_eci,
                         Vector3D(Mul(Neg(speed), sin_nu),
                                  Mul(speed, Add(e_or_one, cos_nu)), Zero)),
     epoch    |-> epoch]

CartesianAtRadius(elements, r, cos_nu, sin_nu) ==
    IF Less(Zero, elements.semi_major_axis)
    THEN StateInFrame(
             PerifocalToEci(elements.raan, elements.inclination,
                            elements.argument_of_perigee),
             r, cos_nu, sin_nu,
             Sqrt(Div(Div(EARTH_MU, elements.semi_major_axis),
                      Sub(ONE, Mul(elements.eccentricity,
                                   elements.eccentricity)))),
             elements.eccentricity, elements.epoch)
    ELSE StateInFrame(
             PerifocalToEci(elements.raan, elements.inclination,
                            elements.argument_of_perigee),
             r, cos_nu, sin_nu, Sqrt(Div(EARTH_MU, r)), ONE, elements.epoch)

CartesianAt(elements, cos_nu, sin_nu) ==
    CartesianAtRadius(
        elements,
        Div(Mul(elements.semi_major_axis,
                Sub(ONE, Mul(elements.eccentricity, elements.eccentricity))),
            Add(ONE, Mul(elements.eccentricity, cos_nu))),
        cos_nu, sin_nu)

\* orbital_elements_to_cartesian(elements), for a finite semi-major axis and
\* eccentricity; the cosine and the sine of a nan angle are nan and reach
\* every component of the position and of the velocity through the products
OrbitalElementsToCartesian(elements) ==
    IF NaN \in {elements.inclination, elements.raan,
                elements.argument_of_perigee, elements.true_anomaly}
    THEN [position |-> NaNVector, velocity |-> NaNVector,
          epoch |-> elements.epoch]
    ELSE CartesianAt(elements, Cos(elements.true_anomaly),
                     Sin(elements.true_anomaly))

(***************************************************************************)
(* Calls to the orbital calculator, which keeps no state between calls     *)
(***************************************************************************)
MaxSearchDays == 2

\* target inclinations and launch latitudes, in degrees
InclinationsDeg ==
    {Dec(0, 0), Dec(30, 0), Dec(45, 0), Dec(516, 1), Dec(90, 0), Dec(98, 0),
     Dec(150, 0)}

LatitudesDeg == {Dec(0, 0), Dec(285, 1), Dec(45, 0), Dec(-45, 0), Dec(60, 0)}

\* the elements the launch-windows endpoint builds for a 400 km orbit of the
\* inclination given in degrees
TargetElements(inclination_deg) ==
    [semi_major_axis |-> Dec(6778137, 0),
     inclination     |-> Radians(inclination_deg),
     raan            |-> Zero]

DockingUntouched ==
    UNCHANGED <<spacecraft_state, docking_phase, target_port, simulation_active,
                simulation_data, loops, response, run>>

\* the calls of optimize_launch_window a behaviour may begin with
LaunchWindowCalls ==
    {[call            |-> "optimize_launch_window",
      inclination_deg |-> inclination_deg,
      launch_site_lat |-> launch_site_lat,
      search_days     |-> search_days,
      pending         |-> TRUE] :
        inclination_deg \in InclinationsDeg, launch_site_lat \in LatitudesDeg,
        search_days \in 0..MaxSearchDays}

\* the call returns: launch_windows is the list as it was before the sort
Returned(launch_windows, result) ==
    [calc EXCEPT !.pending = FALSE] @@
        [launch_windows |-> launch_windows, result |-> result]

OptimizeLaunchWindowCall ==
    /\ calc.call = "optimize_launch_window"
    /\ calc.pending
    /\ calc' = Returned(LaunchWindows(TargetElements(calc.inclination_deg),
                                      calc.launch_site_lat, calc.search_days),
                        OptimizeLaunchWindow(
                            TargetElements(calc.inclination_deg),
                            calc.launch_site_lat, calc.search_days))
    /\ DockingUntouched

MaxPropagationSteps == 2

\* state vectors handed to the calculator, the epoch in seconds since
\* 2000-01-01 12:00
StateVector(position, velocity, epoch) ==
    [position |-> position, velocity |-> velocity, epoch |-> epoch]

Epochs == {Zero, Dec(800000000, 0)}

\* a 400 km orbit inclined by 51.6 degrees, at its ascending node
LowEarthOrbit ==
    {StateVector(Vector3D(Dec(6778137, 0), Zero, Zero),
                 Vector3D(Zero, Dec(47632, 1), Dec(60101, 1)), epoch) :
        epoch \in Epochs}

\* one kilometre from the centre of the Earth, at rest
BelowSurface ==
    {StateVector(Vector3D(Dec(1000, 0), Zero, Zero), ZeroVector, epoch) :
        epoch \in Epochs}

\* at the centre of the Earth, at rest
AtCentre == {StateVector(ZeroVector, ZeroVector, epoch) : epoch \in Epochs}

\* durations in seconds: whole and broken numbers of steps, and negative ones
Durations ==
    {PROPAGATION_STEP * k : k \in 0..MaxPropagationSteps}
        \cup {PROPAGATION_STEP * k + 30 : k \in 0..MaxPropagationSteps}
        \cup {-30, -90}

\* the calls of propagate_orbit a behaviour may begin with
PropagateOrbitCalls ==
    {[call     |-> "propagate_orbit",
      state    |-> state,
      duration |-> duration,
      pending  |-> TRUE] :
        state \in LowEarthOrbit \cup BelowSurface \cup AtCentre,
        duration \in Durations}

PropagateOrbitCall ==
    /\ calc.call = "propagate_orbit"
    /\ calc.pending
    /\ calc' = [calc EXCEPT !.pending = FALSE] @@
                   [returned |-> PropagateOrbit(calc.state, calc.duration)]
    /\ DockingUntouched

\* 7000 km from the centre
OrbitRadius == Dec(7000000, 0)

\* the speed of the circular orbit of that radius, to nine digits
CircularSpeed == Dec(754605329, 5)

\* OrbitRadius / sqrt(2)
RadiusOnDiagonal == Add(Dec(4949747, 0), Dec(468, 3))

\* bound orbits: at the ascending node of an inclined ellipse; an ellipse in
\* the equatorial plane with its perigee on the y axis; circles in the
\* equatorial plane and in a plane inclined by 45 degrees (a quarter turn
\* after the node); two ellipses in general position; an ellipse inclined
\* by less than a tenth of a degree
BoundOrbits ==
    LowEarthOrbit \cup
    {StateVector(position, velocity, Zero) :
        <<position, velocity>> \in
            {<<Vector3D(Zero, OrbitRadius, Zero),
               Vector3D(Dec(-8000, 0), Zero, Zero)>>,
             <<Vector3D(OrbitRadius, Zero, Zero),
               Vector3D(Zero, CircularSpeed, Zero)>>,
             <<Vector3D(Zero, RadiusOnDiagonal, RadiusOnDiagonal),
               Vector3D(Neg(CircularSpeed), Zero, Zero)>>,
             <<Vector3D(Dec(-3000000, 0), Dec(5000000, 0), Dec(4000000, 0)),
               Vector3D(Dec(-5000, 0), Dec(-4500, 0), Dec(1500, 0))>>,
             <<Vector3D(Dec(3000000, 0), Dec(-5000000, 0), Dec(-4000000, 0)),
               Vector3D(Dec(5500, 0), Dec(4500, 0), Dec(-2500, 0))>>,
             <<Vector3D(OrbitRadius, Zero, Zero),
               Vector3D(Zero, Dec(7600, 0), Dec(10, 0))>>}}

\* states without angular momentum: at rest, moving along the position
\* vector, and at the centre
RadialStates ==
    AtCentre \cup
    {StateVector(Vector3D(OrbitRadius, Zero, Zero), velocity, Zero) :
        velocity \in {ZeroVector, Vector3D(Dec(1000, 0), Zero, Zero),
                      Vector3D(Dec(-7500, 0), Zero, Zero)}}

\* the calls of cartesian_to_orbital_elements a behaviour may begin with
CartesianToOrbitalElementsCalls ==
    {[call    |-> "cartesian_to_orbital_elements",
      state   |-> state,
      pending |-> TRUE] : state \in BoundOrbits \cup RadialStates}

CartesianToOrbitalElementsCall ==
    /\ calc.call = "cartesian_to_orbital_elements"
    /\ calc.pending
    /\ calc' = [calc EXCEPT !.pending = FALSE] @@
                   [returned |-> CartesianToOrbitalElements(calc.state)]
    /\ DockingUntouched

\* chaser and target states of a rendezvous: the 400 km orbit, a faster start
\* in the same plane, the same speed in a flatter plane, an ellipse in
\* general position, a circular orbit at
\* the geostationary radius, a fall at rest and a radial escape
RendezvousStates ==
    {StateVector(position, velocity, Zero) :
        <<position, velocity>> \in
            {<<Vector3D(Dec(6778137, 0), Zero, Zero),
               Vector3D(Zero, Dec(47632, 1), Dec(60101, 1))>>,
             <<Vector3D(Dec(6778137, 0), Zero, Zero),
               Vector3D(Zero, Dec(4858464, 3), Dec(6130302, 3))>>,
             <<Vector3D(Dec(6778137, 0), Zero, Zero),
               Vector3D(Zero, Dec(60101, 1), Dec(47632, 1))>>,
             <<Vector3D(Dec(3000000, 0), Dec(-5000000, 0), Dec(-4000000, 0)),
               Vector3D(Dec(5500, 0), Dec(4500, 0), Dec(-2500, 0))>>,
             <<Vector3D(Dec(42164000, 0), Zero, Zero),
               Vector3D(Zero, Dec(307466, 2), Zero)>>,
             <<Vector3D(OrbitRadius, Zero, Zero), ZeroVector>>,
             <<Vector3D(Zero, OrbitRadius, Zero),
               Vector3D(Zero, Dec(12000, 0), Zero)>>}}

\* the calls of plan_rendezvous_maneuver a behaviour may begin with
PlanRendezvousManeuverCalls ==
    {[call         |-> "plan_rendezvous_maneuver",
      chaser_state |-> chaser_state,
      target_state |-> target_state,
      pending      |-> TRUE] :
        chaser_state \in RendezvousStates, target_state \in RendezvousStates}

\* the call returns a plan or ends with the exception raised on the way
Outcome(plan) ==
    IF "raised" \in DOMAIN plan THEN plan ELSE [returned |-> plan]

PlanRendezvousManeuverCall ==
    /\ calc.call = "plan_rendezvous_maneuver"
    /\ calc.pending
    /\ calc' = [calc EXCEPT !.pending = FALSE] @@
                   Outcome(PlanRendezvousManeuver(calc.chaser_state,
                                                  calc.target_state))
    /\ DockingUntouched

\* the calls orbital_elements_to_cartesian(cartesian_to_orbital_elements(
\* state)) a behaviour may begin with
RoundTripCalls ==
    {[call    |-> "orbital_elements_to_cartesian",
      state   |-> state,
      pending |-> TRUE] : state \in BoundOrbits}

RoundTripOf(elements) ==
    [calc EXCEPT !.pending = FALSE] @@
        [elements |-> elements,
         returned |-> OrbitalElementsToCartesian(elements)]

RoundTripCall ==
    /\ calc.call = "orbital_elements_to_cartesian"
    /\ calc.pending
    /\ calc' = RoundTripOf(CartesianToOrbitalElements(calc.state))
    /\ DockingUntouched

\* The calculator keeps nothing between calls, so a behaviour is one call:
\* the arguments are drawn at the start and the call is then made.
OrbitInit ==
    /\ spacecraft_state = None
    /\ docking_phase = "APPROACH"
    /\ target_port = "HARMONY_FORWARD"
    /\ simulation_active = FALSE
    /\ simulation_data = <<>>
    /\ loops = <<>>
    /\ response = [op |-> "__init__"]
    /\ run = [id |-> 0, ic |-> None, ticks |-> 0, aborted |-> FALSE,
              clobbered |-> FALSE]
    /\ calc \in LaunchWindowCalls \cup PropagateOrbitCalls
                  \cup CartesianToOrbitalElementsCalls
                  \cup PlanRendezvousManeuverCalls \cup RoundTripCalls

OrbitNext ==
    \/ OptimizeLaunchWindowCall
    \/ PropagateOrbitCall
    \/ CartesianToOrbitalElementsCall
    \/ PlanRendezvousManeuverCall
    \/ RoundTripCall

OrbitSpec == OrbitInit /\ [][OrbitNext]_vars

\* the inclination cannot be reached from the latitude, both in degrees
Unreachable(inclination_deg, latitude_deg) ==
    \/ Less(inclination_deg, Abs(latitude_deg))
    \/ Less(Sub(Dec(180, 0), Abs(latitude_deg)), inclination_deg)

\* C16: optimize_launch_window returns the empty list whenever the target
\* inclination cannot be reached from the launch latitude (inclination below
\* |latitude|, or |cos(inclination) / cos(latitude)| above 1), whatever
\* search_days is: no candidate is returned with a defaulted azimuth.
C16_UnreachableIsEmpty ==
    (calc.call = "optimize_launch_window" /\ ~calc.pending
        /\ Unreachable(calc.inclination_deg, calc.launch_site_lat))
        => calc.result = <<>>

\* C16: two days were searched for 30 degrees from latitude 45 degrees and
\* nothing was returned
C16_Witness ==
    /\ calc.call = "optimize_launch_window"
    /\ ~calc.pending
    /\ calc.inclination_deg = Dec(30, 0)
    /\ calc.launch_site_lat = Dec(45, 0)
    /\ calc.search_days = 2
    /\ calc.result = <<>>

Range(seq) == {seq[k] : k \in DOMAIN seq}

FeasibleCandidates(inclination_deg, latitude_deg, search_days) ==
    IF Unreachable(inclination_deg, latitude_deg) THEN 0
    ELSE HOURS_CHECKED * search_days

\* C17: optimize_launch_window returns min(10, number of feasible
\* candidates) windows, every one a feasible candidate of the grid, in order of
\* non-increasing window_score, and no feasible candidate left out scores
\* strictly higher than a returned one.
C17_TopTenByScore ==
    (calc.call = "optimize_launch_window" /\ ~calc.pending)
        => /\ Len(calc.result) =
                  Min(10, FeasibleCandidates(calc.inclination_deg,
                                             calc.launch_site_lat,
                                             calc.search_days))
           /\ Len(calc.launch_windows) =
                  FeasibleCandidates(calc.inclination_deg,
                                     calc.launch_site_lat, calc.search_days)
           /\ Range(calc.result) \subseteq Range(calc.launch_windows)
           /\ \A k \in 1..(Len(calc.result) - 1) :
                  ~Less(calc.result[k].window_score,
                        calc.result[k + 1].window_score)
           /\ \A w \in Range(calc.launch_windows) \ Range(calc.result) :
                  \A r \in Range(calc.result) :
                      ~Less(r.window_score, w.window_score)

\* C17: of 24 feasible candidates ten were returned, the best at noon and
\* the last two hours further from noon than the first
C17_Witness ==
    /\ calc.call = "optimize_launch_window"
    /\ ~calc.pending
    /\ Len(calc.launch_windows) = 24
    /\ Len(calc.result) = 10
    /\ calc.result[1].launch_time.hour = 12
    /\ Less(calc.result[10].window_score, calc.result[1].window_score)


(***************************************************************************)
(* C18.  propagate_orbit on a non-physical state, one whose position lies  *)
(* far below the surface of the Earth or becomes non-finite on the way, is *)
(* rejected with SimulationDivergenceError and returns no trajectory       *)
(* points.                                                                 *)
(***************************************************************************)
Answered(call) == calc.call = call /\ ~calc.pending

Raised(error) == "raised" \in DOMAIN calc /\ calc.raised = error

\* the position lies within a tenth of the Earth's radius from the centre
FarBelowSurface(position) ==
    Less(SumOfSquares(position.x, position.y, position.z),
         Mul(DivInt(EARTH_RADIUS, 10), DivInt(EARTH_RADIUS, 10)))

C18_DivergenceGuard ==
    (Answered("propagate_orbit") /\ FarBelowSurface(calc.state.position))
        => Raised("SimulationDivergenceError")

(***************************************************************************)
(* C19.  cartesian_to_orbital_elements fails with DegenerateOrbitError for *)
(* a state whose specific angular momentum is zero, position and velocity  *)
(* parallel or the velocity zero, and returns no OrbitalElements for it;   *)
(* plan_rendezvous_maneuver fails the same way when its chaser or its      *)
(* target state is such a state.                                           *)
(***************************************************************************)
NoAngularMomentum(state) == Cross(state.position, state.velocity) = ZeroVector

C19_DegenerateOrbitFails ==
    /\ (Answered("cartesian_to_orbital_elements")
            /\ NoAngularMomentum(calc.state))
           => Raised("DegenerateOrbitError")
    /\ (Answered("plan_rendezvous_maneuver")
            /\ (NoAngularMomentum(calc.chaser_state)
                    \/ NoAngularMomentum(calc.target_state)))
           => Raised("DegenerateOrbitError")

(***************************************************************************)
(* C20.  Degenerate orbits get defined fallbacks: for an equatorial orbit, *)
(* node vector near zero, RAAN is 0 and the argument of perigee is the     *)
(* angle of the eccentricity vector from the x axis; for a circular orbit, *)
(* eccentricity near zero, the true anomaly is the argument of latitude    *)
(* from the node vector; and in every combination of the two cases all the *)
(* returned angles are defined finite values.                              *)
(***************************************************************************)
\* the input is a state with angular momentum, away from the centre
ProperOrbit(state) ==
    state.position # ZeroVector /\ ~NoAngularMomentum(state)

NodeVectorOf(state) == NodeVector(Cross(state.position, state.velocity))

EccentricityVectorIn(state) ==
    EccentricityVector(state.position, state.velocity, Norm(state.position),
                       Norm(state.velocity))

Equatorial(state) == ~Less(TINY, Norm(NodeVectorOf(state)))

Circular(elements) == ~Less(TINY, elements.eccentricity)

\* the angle of the vector u, which lies in the xy plane, from the x axis
AngleFromXAxis(u) == AngleOnSide(ArcCos(Div(u.x, Norm(u))), u.y.neg)

\* the angle from the vector u to the position
AngleFrom(u, position) ==
    AngleOnSide(ArcCos(Div(Dot(u, position), Mul(Norm(u), Norm(position)))),
                position.z.neg)

AnglesFinite(elements) ==
    /\ IsFinite(elements.inclination)
    /\ IsFinite(elements.raan)
    /\ IsFinite(elements.argument_of_perigee)
    /\ IsFinite(elements.true_anomaly)

DefinedFallbacks(state, elements) ==
    /\ AnglesFinite(elements)
    /\ Equatorial(state) => elements.raan = Zero
    /\ (Equatorial(state) /\ ~Circular(elements))
           => elements.argument_of_perigee
                  = AngleFromXAxis(EccentricityVectorIn(state))
    /\ (Circular(elements) /\ ~Equatorial(state))
           => elements.true_anomaly
                  = AngleFrom(NodeVectorOf(state), state.position)

C20_DegenerateFallbacks ==
    (Answered("cartesian_to_orbital_elements") /\ ProperOrbit(calc.state))
        => DefinedFallbacks(calc.state, calc.returned)

(***************************************************************************)
(* C21.  Round trip: for every bound orbit of a representative set,        *)
(* circular, elliptical, inclined and near-equatorial,                     *)
(* orbital_elements_to_cartesian(cartesian_to_orbital_elements(s)) gives   *)
(* the position of s within 10 m and its velocity within 0.01 m/s in every *)
(* component, and the epoch of s.                                          *)
(***************************************************************************)
Within(x, y, tolerance) == IsFinite(x) /\ ~Less(tolerance, Abs(Sub(x, y)))

VectorWithin(u, v, tolerance) ==
    /\ Within(u.x, v.x, tolerance)
    /\ Within(u.y, v.y, tolerance)
    /\ Within(u.z, v.z, tolerance)

Reproduces(returned, state) ==
    /\ VectorWithin(returned.position, state.position, Dec(10, 0))
    /\ VectorWithin(returned.velocity, state.velocity, Dec(1, 2))
    /\ returned.epoch = state.epoch

C21_RoundTrip ==
    Answered("orbital_elements_to_cartesian")
        => Reproduces(calc.returned, calc.state)

(***************************************************************************)
(* C22.  A plan returned by plan_rendezvous_maneuver holds its maneuvers   *)
(* in the order plane_change, hohmann_transfer_1, hohmann_transfer_2,      *)
(* final_approach: the plane change exactly when the inclinations differ   *)
(* by more than 0.001 rad, the two Hohmann burns, both or neither, exactly *)
(* when the semi-major axes differ by more than 1000 m, and the final      *)
(* approach of 50 m/s always and last; total_delta_v is the sum of the     *)
(* maneuvers' delta-v and fuel_required is total_delta_v / (9.81 * 450) *  *)
(* 1000.                                                                   *)
(***************************************************************************)
PlanReturned == Answered("plan_rendezvous_maneuver") /\ "returned" \in DOMAIN calc

ExpectedTypes(plane_change, hohmann) ==
    (IF plane_change THEN <<"plane_change">> ELSE <<>>)
        \o (IF hohmann THEN <<"hohmann_transfer_1", "hohmann_transfer_2">>
                        ELSE <<>>)
        \o <<"final_approach">>

RECURSIVE SumOfDeltaV(_, _)
SumOfDeltaV(maneuvers, k) ==
    IF k > Len(maneuvers) THEN Zero
    ELSE Add(maneuvers[k].delta_v_magnitude, SumOfDeltaV(maneuvers, k + 1))

PlanAsClaimed(plan, chaser_elements, target_elements) ==
    /\ [k \in 1..Len(plan.maneuvers) |-> plan.maneuvers[k].type]
           = ExpectedTypes(
                 FGreater(FAbs(FSub(target_elements.inclination,
                                    chaser_elements.inclination)),
                          Dec(1, 3)),
                 FGreater(FAbs(FSub(target_elements.semi_major_axis,
                                    chaser_elements.semi_major_axis)),
                          Dec(1000, 0)))
    /\ plan.maneuvers[Len(plan.maneuvers)].delta_v_magnitude = Dec(50, 0)
    /\ plan.total_delta_v = SumOfDeltaV(plan.maneuvers, 1)
    /\ plan.fuel_required
           = Mul(Div(plan.total_delta_v, Mul(Dec(981, 2), Dec(450, 0))),
                 Dec(1000, 0))

C22_ManeuverSequence ==
    PlanReturned
        => PlanAsClaimed(calc.returned,
                         CartesianToOrbitalElements(calc.chaser_state),
                         CartesianToOrbitalElements(calc.target_state))

\* C22: a plan of all four maneuvers was returned, and its total is more
\* than the 50 m/s of the final approach
C22_Witness ==
    /\ PlanReturned
    /\ Len(calc.returned.maneuvers) = 4
    /\ calc.returned.maneuvers[1].type = "plane_change"
    /\ calc.returned.maneuvers[4].type = "final_approach"
    /\ Less(Dec(50, 0), calc.returned.total_delta_v)

(***************************************************************************)
(* C23.  propagate_orbit returns its points in order of time: for a        *)
(* duration of at least zero there are floor(duration / 60 s) + 1 points,  *)
(* the first one carries the position, the velocity and the epoch of the   *)
(* state handed in, which the call leaves as it was, and point k, counted  *)
(* from 0, has the time epoch + k * 60 s.                                  *)
(***************************************************************************)
OrderedByTime(trajectory, state, duration) ==
    /\ Len(trajectory) = (duration \div 60) + 1
    /\ trajectory[1].position = state.position
    /\ trajectory[1].velocity = state.velocity
    /\ trajectory[1].time = state.epoch
    /\ \A k \in 0..(Len(trajectory) - 1) :
           trajectory[k + 1].time = Add(state.epoch, Dec(60 * k, 0))
    /\ \A k \in 1..(Len(trajectory) - 1) :
           Less(trajectory[k].time, trajectory[k + 1].time)

C23_TrajectoryOrdered ==
    (Answered("propagate_orbit") /\ calc.duration >= 0)
        => OrderedByTime(calc.returned, calc.state, calc.duration)

\* C23: 150 s from the 400 km orbit gave three points, the last one 120 s
\* after the epoch and away from the first position
C23_Witness ==
    /\ Answered("propagate_orbit")
    /\ calc.duration = 150
    /\ calc.state \in LowEarthOrbit
    /\ Len(calc.returned) = 3
    /\ calc.returned[3].time = Add(calc.state.epoch, Dec(120, 0))
    /\ calc.returned[3].position # calc.state.position

(***************************************************************************)
(* C24.  Every target port that start_docking_simulation accepts with      *)
(* status success has a port configuration, and every physics tick of the  *)
(* run completes instead of failing inside the loop.                       *)
(***************************************************************************)
C24_AcceptedPortsConfigured ==
    /\ IsStart => PortConfigured(target_port)
    /\ response.op = "_physics_loop" => response.did # "error"

(***************************************************************************)
(* Runs that begin far from the port or fast, where the thrusters are at   *)
(* their limit                                                             *)
(***************************************************************************)
MaxControlTicks == 30

\* 150 km out and off the axis; crossing the port at 9 km/s; 60 km out, where
\* the demand is below the limit; at the limit's edge
FarOut      == [x |-> Dec(-150000, 0), y |-> Dec(20000, 0), z |-> Dec(-5000, 0)]
FastFlyby   == [x |-> Dec(-100, 0), vx |-> Dec(9000, 0), vy |-> Dec(-300, 0)]
ModerateOut == [x |-> Dec(-60000, 0), y |-> Dec(100, 0)]
AtTheLimit  == [x |-> Zero, vx |-> Dec(-7000, 0)]

ControlScenarios == {FarOut, FastFlyby, ModerateOut, AtTheLimit, Defaults}

StartControlRun ==
    run.id = 0 /\ \E ic \in ControlScenarios : StartDockingSimulation(ic)

ControlNext ==
    \/ StartControlRun
    \/ \E i \in DOMAIN loops : PhysicsLoopWithin(i, MaxControlTicks)

ControlSpec == Init /\ [][ControlNext]_vars

(***************************************************************************)
(* C25.  The control acceleration of a tick is (kp * position error + kd * *)
(* velocity error) / spacecraft mass, clamped in magnitude: what           *)
(* _calculate_control_inputs returns has a magnitude of at most 0.1 m/s^2, *)
(* is the unclamped acceleration itself when that one's magnitude is at    *)
(* most 0.1, and keeps its direction when clamped (the cross product with  *)
(* the unclamped acceleration vanishes to within 1e-12).                   *)
(***************************************************************************)
\* a run is in the simulator's state and its port has a configuration
Ticking == spacecraft_state # None /\ PortConfigured(target_port)

Rounding == Dec(1, 12)

\* (kp * position error + kd * velocity error) / mass
Demand(st, port) ==
    Vector3D(
        Div(Sub(Mul(Dec(1, 2), Sub(docking_ports[port].position.x,
                                   st.position.x)),
                Mul(Dec(1, 1), st.velocity.x)), Dec(spacecraft_mass, 0)),
        Div(Sub(Mul(Dec(1, 2), Sub(docking_ports[port].position.y,
                                   st.position.y)),
                Mul(Dec(1, 1), st.velocity.y)), Dec(spacecraft_mass, 0)),
        Div(Sub(Mul(Dec(1, 2), Sub(docking_ports[port].position.z,
                                   st.position.z)),
                Mul(Dec(1, 1), st.velocity.z)), Dec(spacecraft_mass, 0)))

\* u points the way v does
SameDirection(u, v) ==
    /\ Less(Zero, Dot(u, v))
    /\ VectorWithin(Cross(u, v), ZeroVector, Rounding)

Clamped(control_acceleration, demand) ==
    /\ ~Less(Dec(1, 1), Magnitude(control_acceleration))
    /\ IF Less(Dec(1, 1), Magnitude(demand))
       THEN SameDirection(control_acceleration, demand)
       ELSE control_acceleration = demand

C25_ControlClamped ==
    Ticking
        => Clamped(CalculateControlInputs(spacecraft_state, target_port),
                   Demand(spacecraft_state, target_port))

\* C25: a tick was made from a state whose demand was above the limit, and
\* the demand of the state it led to is still above it
C25_Witness ==
    /\ IsTick
    /\ run.ic = FarOut
    /\ Less(Dec(1, 1), Magnitude(Demand(spacecraft_state, target_port)))
    /\ CalculateControlInputs(spacecraft_state, target_port)
           # Demand(spacecraft_state, target_port)

(***************************************************************************)
(* C26.  get_simulation_status is a read-only snapshot: it changes no      *)
(* state of the simulator, returns status inactive exactly when no run is  *)
(* active, and otherwise returns the phase, the target port, the position, *)
(* the velocity and the distance to the port of the active run.            *)
(***************************************************************************)
\* what a status query answered for the simulator state it was made in
Snapshot(answer) ==
    IF "raised" \in DOMAIN answer THEN FALSE
    ELSE IF ~simulation_active THEN answer.status = "inactive"
    ELSE /\ answer.status = "active"
         /\ answer.phase = docking_phase
         /\ answer.target_port = target_port
         /\ answer.position = spacecraft_state.position
         /\ answer.velocity = spacecraft_state.velocity
         /\ answer.distance_to_port = Distance

C26_StatusIsSnapshot ==
    [][response'.op = "get_simulation_status"
           => /\ UNCHANGED <<spacecraft_state, docking_phase, target_port,
                             simulation_active, simulation_data>>
              /\ Snapshot(response')]_vars

(***************************************************************************)
(* C27.  In every rendezvous plan the execution times of the maneuvers do  *)
(* not decrease along the sequence and lie within the estimated duration   *)
(* of 8 h after the chaser's epoch: the final approach at +6 h is not      *)
(* earlier than the second Hohmann burn at +2 h + transfer time, whatever  *)
(* the transfer time is.                                                   *)
(***************************************************************************)
TimesInOrder(plan, epoch) ==
    /\ \A k \in 1..(Len(plan.maneuvers) - 1) :
           ~Less(plan.maneuvers[k + 1].execution_time,
                 plan.maneuvers[k].execution_time)
    /\ \A k \in 1..Len(plan.maneuvers) :
           /\ ~Less(plan.maneuvers[k].execution_time, epoch)
           /\ ~Less(Add(epoch, Mul(plan.estimated_duration,
                                   Dec(SECONDS_PER_HOUR, 0))),
                    plan.maneuvers[k].execution_time)

C27_ManeuverTimesOrdered ==
    PlanReturned => TimesInOrder(calc.returned, calc.chaser_state.epoch)

(***************************************************************************)
(* A single run left to itself: one start, no abort, no status query, and  *)
(* the loop task gets to run whenever it is due (asyncio wakes a sleeping  *)
(* task once its delay is over).  The run is followed for MaxFairTicks     *)
(* ticks.                                                                  *)
(***************************************************************************)
MaxFairTicks == 40

FairScenarios == Scenarios \cup {Defaults}

StartFairRun ==
    run.id = 0 /\ \E ic \in FairScenarios : StartDockingSimulation(ic)

FairLoop == \E i \in DOMAIN loops : PhysicsLoopWithin(i, MaxFairTicks)

FairNext == StartFairRun \/ FairLoop

\* a turn of the loop that makes no tick: the exit, or the failed attempt
IdleTurn == ~(simulation_active /\ PortConfigured(target_port)) /\ FairLoop

\* a tick can be made: ENABLED <<FairLoop>>_vars for a run that is active on
\* a configured port (a tick always changes run.ticks)
TickDue ==
    /\ simulation_active
    /\ PortConfigured(target_port)
    /\ run.ticks < MaxFairTicks
    /\ \E i \in DOMAIN loops : loops[i] \in {"scheduled", "sleep", "error_sleep"}

\* weak fairness of the loop's turns; for the ticks it is written out, with
\* TickDue as the enabling condition
FairSpec ==
    /\ Init /\ [][FairNext]_vars
    /\ WF_vars(IdleTurn)
    /\ ([]<>~TickDue \/ []<><<FairLoop>>_vars)

(***************************************************************************)
(* C28.  Every started docking run ends without outside help: with the     *)
(* loop scheduled fairly and no abort, a run whose start succeeded         *)
(* eventually reaches HARD_DOCK or ABORT and its loop stops; no run stays  *)
(* in a phase that is not terminal for ever.  A run still going after      *)
(* MaxFairTicks ticks is followed no further.                              *)
(***************************************************************************)
RunEnded ==
    /\ docking_phase \in Terminal
    /\ ~simulation_active
    /\ \A i \in DOMAIN loops : loops[i] = "done"

C28_RunsTerminate ==
    [](simulation_active => <>(RunEnded \/ run.ticks = MaxFairTicks))

(***************************************************************************)
(* C29.  A failed start changes nothing: when start_docking_simulation     *)
(* returns status error, the spacecraft state, the phase, the target port, *)
(* the active flag and the recorded history are what they were before the  *)
(* call and no physics loop is started, so that a run in progress goes on  *)
(* undisturbed.                                                            *)
(***************************************************************************)
C29_FailedStartChangesNothing ==
    [][(response'.op = "start_docking_simulation"
            /\ response'.status = "error")
           => UNCHANGED <<spacecraft_state, docking_phase, target_port,
                          simulation_active, simulation_data, loops>>]_vars

(***************************************************************************)
(* A run on the default conditions, long enough to fill the history, and a *)
(* second start early in the run or once the history is full               *)
(***************************************************************************)
StartHistoryRun ==
    \/ run.id = 0 /\ StartDockingSimulation(Defaults)
    \/ /\ run.id = 1
       /\ run.ticks \in {2, MaxLongTicks}
       /\ StartDockingSimulation(AtPortAtRest)

HistoryNext ==
    \/ StartHistoryRun
    \/ \E i \in DOMAIN loops : PhysicsLoopWithin(i, MaxLongTicks)

HistorySpec == Init /\ [][HistoryNext]_vars

(***************************************************************************)
(* C30.  The recorded history is bounded and fresh: it never holds more    *)
(* than 1000 points; a completed tick appends exactly one point, which     *)
(* records the state and the phase as they are after the tick's dynamics   *)
(* and phase update, and drops the oldest point when the bound is          *)
(* exceeded; a start of a new run empties the history.                     *)
(***************************************************************************)
\* the point a tick records of the state st in phase ph
DataPoint(ph, st) ==
    [phase |-> ph, position |-> st.position, velocity |-> st.velocity,
     attitude |-> st.attitude]

\* `after` is `before` with one point appended, the oldest one dropped if
\* that made more than 1000
AppendedTo(before, after, point) ==
    /\ Last(after) = point
    /\ IF Len(before) < 1000
       THEN Len(after) = Len(before) + 1
            /\ SubSeq(after, 1, Len(before)) = before
       ELSE Len(after) = 1000
            /\ SubSeq(after, 1, 999) = Tail(before)

C30_HistoryBoundedAndFresh ==
    [][/\ Len(simulation_data') <= 1000
       /\ IsTick' => AppendedTo(simulation_data, simulation_data',
                                DataPoint(docking_phase', spacecraft_state'))
       /\ IsStart' => simulation_data' = <<>>]_vars

\* C30: the tick after the history had filled left it at its limit, the
\* newest point being the state of the spacecraft
C30_Witness ==
    /\ IsTick
    /\ run.ticks > HISTORY_LIMIT
    /\ Len(simulation_data) = HISTORY_LIMIT
    /\ Last(simulation_data).position = spacecraft_state.position

\* C30: a second start, made while the first run's loop was alive, emptied
\* the history
C30_RestartWitness ==
    /\ IsStart
    /\ run.id = 2
    /\ simulation_data = <<>>
    /\ Len(loops) = 2

============================================================================
